---------------------------- MODULE Spec2Model ----------------------------
(***************************************************************************)
(* Model of the scrape-resolve pipeline of src/main.py: the relevance      *)
(* filters, the sequential pagers, the asyncio.gather fan-outs, the        *)
(* deduplication steps and the ranged-GET validator.                       *)
(*                                                                         *)
(* Strings whose characters matter (search terms, titles) are sequences of *)
(* one-character strings; URLs are plain strings joined with \o.           *)
(***************************************************************************)
EXTENDS Integers, Sequences, FiniteSets, TLC

VARIABLES
    adapter,      \* the function under execution
    pc,           \* its position: "start", "run", "gather", "done", "raised", ...
    term,         \* the search term (sequence of characters)
    title,        \* relevance checks: the raw title text of the candidate
    verdict,      \* relevance checks: the candidate was accepted
    items,        \* dedupe step: all_items, the flattened input
    unique_media, \* dedupe step: its output
    again,        \* dedupe step: the step applied to its own output
    server,       \* "any": the site answers anything; "forever": it never runs dry
    page,         \* pagers: the page counter (page_idx in scrape_hqporner)
    urls,         \* pagers: the url accumulator (results_urls, all_urls)
    titles,       \* pagers: the title accumulator
    seen,         \* pagers: the seen set of the crawls that keep one
    queue,        \* scrape_hqporner: the queue of page URLs
    max_pages,    \* scrape_hqporner: parameter
    max_results,  \* scrape_hqporner: parameter
    requests,     \* the URLs of the exchanges completed so far, in order
    responses,    \* pagers: the responses received so far, in order
    tasks,        \* fan-out: the awaitables handed to asyncio.gather, in order
    completed,    \* fan-out: the indices of the finished tasks, in completion order
    results,      \* fan-out: the list asyncio.gather returned
    held,         \* fan-out: what the run holds before the merge (all_videos, ...)
    output,       \* fan-out: the value the function returned
    endpoint,     \* gallery endpoints: the handler serving the request ("" for none)
    album_url,    \* gallery endpoints: the album_url (or query) parameter
    sessions,     \* the ClientSessions of the run: how many it opened, how many
                  \* are open, and the most that were open at once
    invites,      \* invites.json: invite code -> used
    users,        \* users.json: username -> password hash
    calls         \* the calls of the invite and register endpoints so far, each
                  \* with its answer

vars == <<adapter, pc, term, title, verdict, items, unique_media, again,
          server, page, urls, titles, seen, queue, max_pages, max_results,
          requests, responses, tasks, completed, results, held, output,
          endpoint, album_url, sessions, invites, users, calls>>

-----------------------------------------------------------------------------
(* Bounds of the model *)

MaxTermLen == 2
MaxTitleLen == 3
MaxInputLen == 3
MaxFetch == 2
MaxForeverFetch == 51
MaxLastPage == 3
MaxCycleFetch == 6

-----------------------------------------------------------------------------
(* Characters and the str methods the filters use *)

Alphabet == {"a", "A", " ", "\t", "-"}

\* str.isspace on one character
isspace(c) == c \in {" ", "\t"}

\* the characters [a-z0-9] keeps
isalnum_lower(c) == c \in {"a"}

\* str.lower on one character
lower_char(c) == IF c = "A" THEN "a" ELSE c

\* str.lower
lower(s) == [i \in 1..Len(s) |-> lower_char(s[i])]

\* str.split() with no separator: the maximal runs of non-whitespace
RECURSIVE split_from(_, _, _)
split_from(s, i, word) ==
    IF i > Len(s)
    THEN IF word = <<>> THEN <<>> ELSE <<word>>
    ELSE IF isspace(s[i])
         THEN (IF word = <<>> THEN <<>> ELSE <<word>>) \o split_from(s, i + 1, <<>>)
         ELSE split_from(s, i + 1, Append(word, s[i]))

split(s) == split_from(s, 1, <<>>)

\* "".join(words)
RECURSIVE join(_)
join(words) == IF words = <<>> THEN <<>> ELSE Head(words) \o join(Tail(words))

\* str.strip(), also get_text(strip=True) on a single text node
RECURSIVE lstrip(_)
lstrip(s) == IF s # <<>> /\ isspace(Head(s)) THEN lstrip(Tail(s)) ELSE s

RECURSIVE rstrip(_)
rstrip(s) ==
    IF s # <<>> /\ isspace(s[Len(s)]) THEN rstrip(SubSeq(s, 1, Len(s) - 1)) ELSE s

strip(s) == lstrip(rstrip(s))

\* sub in s
contains(sub, s) ==
    \E i \in 0..(Len(s) - Len(sub)) : SubSeq(s, i + 1, i + Len(sub)) = sub

\* re.sub(r'[^a-z0-9]', '', s)
sub_non_alnum(s) == SelectSeq(s, isalnum_lower)

\* a mutant of _normalize: lower() forgotten
normalize_no_lower(s) == join(split(s))

_normalize(s) == join(split(lower(s)))

\* the test `normalized in _normalize(title)` of fetch_gotanynudes, fetch_nsfw247,
\* fetch_hornysimp, fetch_porntn, fetch_xxbrits and fetch_bitchesgirls; the
\* title is a["title"].strip() or a.get_text(strip=True)
relevant_normalize(t, raw) == contains(_normalize(t), _normalize(strip(raw)))

\* fetch_notfans: term = search_term.lower(); `term not in title.lower()` skips
relevant_notfans(t, raw) == contains(lower(t), lower(strip(raw)))

\* fetch_fullporner_page: both sides stripped of everything outside [a-z0-9]
relevant_fullporner(t, raw) ==
    contains(sub_non_alnum(lower(t)), sub_non_alnum(lower(strip(raw))))

\* scrape_hqporner: "".join(x.lower().split()) on both sides
relevant_hqporner(t, raw) ==
    contains(join(split(lower(t))), join(split(lower(strip(raw)))))

-----------------------------------------------------------------------------
(* Strings of the alphabet up to a length *)

StringsUpTo(n) == UNION {[1..k -> Alphabet] : k \in 0..n}

-----------------------------------------------------------------------------
(* fetch_all_erome_media: the deduplication step *)

\* An image is a plain string, a video a dict {"url", "thumbnail"}
ImageItem(u) == [kind |-> "str", value |-> u]
VideoItem(u, t) == [kind |-> "dict", url |-> u, thumbnail |-> t]

\* a mutant of item_url: the whole item as the key
item_as_key(item) == item

\* url = item["url"] if isinstance(item, dict) else item
item_url(item) == IF item.kind = "dict" THEN item.url ELSE item.value

RECURSIVE dedupe_loop(_, _, _)
dedupe_loop(all_items, seen_urls, unique) ==
    IF all_items = <<>>
    THEN unique
    ELSE LET item == Head(all_items)
             url  == item_url(item)
         IN  IF url \notin seen_urls
             THEN dedupe_loop(Tail(all_items), seen_urls \cup {url}, Append(unique, item))
             ELSE dedupe_loop(Tail(all_items), seen_urls, unique)

dedupe(all_items) == dedupe_loop(all_items, {}, <<>>)

MediaItems ==
    {ImageItem(u) : u \in {"https://e/1.jpg", "https://e/2.mp4"}}
    \cup {VideoItem("https://e/2.mp4", t) : t \in {"https://e/p.jpg", "VIDEO_THUMB"}}
    \cup {VideoItem("https://e/3.mp4", "VIDEO_THUMB")}

ItemSeqsUpTo(n) == UNION {[1..k -> MediaItems] : k \in 0..n}

-----------------------------------------------------------------------------
(* HTTP responses and HTML pages as the adapters read them *)

\* str.startswith
startswith(s, p) == Len(s) >= Len(p) /\ SubSeq(s, 1, Len(p)) = p

\* the search term of the adapter runs, and the titles the site shows
TermRun == <<"a", " ", "a">>
T_exact == <<"A", " ", "a">>
T_joined == <<"a", "A">>
T_other == <<"-">>

\* an <a> element the adapter's selector finds: its href and its title text
Anchor(h, t) == [href |-> h, title |-> t]

\* a parsed page: the anchors in document order, the href of the next-page
\* link ("" when there is none), the "Sorry, I can't find ..." text
Body(as, nx, sry) == [anchors |-> as, next |-> nx, sorry |-> sry, nums |-> {}]

\* fullporner: the page and the numbers its a.page-link elements show
NumberedBody(as, ns) == [anchors |-> as, next |-> "", sorry |-> FALSE, nums |-> ns]

Ok(st, b) == [kind |-> "ok", status |-> st, body |-> b]
Exc == [kind |-> "exc"]

\* the hrefs a site uses: two items of the site and one the adapter's
\* href test (where it has one) rejects
Hrefs(a) ==
    CASE a = "fetch_nsfw247" ->
           <<"https://nsfw247.to/v1", "https://nsfw247.to/v2", "https://other.to/v1">>
      [] a = "fetch_hornysimp" ->
           <<"https://hornysimp.com/v1", "https://hornysimp.com/v2", "https://other.to/v1">>
      [] a = "fetch_bitchesgirls" ->
           <<"/onlyfans/v1", "/onlyfans/v2", "/tiktok/v1">>
      [] a = "scrape_hqporner" ->
           <<"/hdporn/1", "/hdporn/2", "/girls/1">>
      [] a = "fetch_pornxp" ->
           <<"/videos/1", "/videos/2", "/videos/3">>
      [] a = "fetch_influencers" ->
           <<"https://influencersgonewild.com/v1", "https://influencersgonewild.com/v2", "/v3">>
      [] a = "fetch_thothub" ->
           <<"https://thothub.to/v1", "https://thothub.to/v2", "/v3">>
      [] a = "fetch_fullporner" ->
           <<"/watch/1", "/watch/2", "/pornstars">>
      [] a = "fetch_gotanynudes" ->
           <<"https://gotanynudes.com/v1", "https://gotanynudes.com/v2", "/v3">>
      [] a = "fetch_thotslife" ->
           <<"https://thotslife.com/v1", "https://thotslife.com/v2", "/v3">>
      [] a = "extract_jpg5_album_media_urls" ->
           <<"https://simp6.jpg5.su/1.jpg", "https://simp6.jpg5.su/2.jpg",
             "https://cdn.other.su/3.jpg">>
      [] a = "fetch_notfans" ->
           <<"https://notfans.com/videos/1/", "https://notfans.com/videos/2/",
             "https://notfans.com/videos/3/">>
      [] a = "fetch_fanslyleaked" ->
           <<"https://ww1.fanslyleaked.com/v1", "/v2", "https://ww1.fanslyleaked.com/page/2/">>

AnchorLists(a) ==
    LET h  == Hrefs(a)
        A1 == Anchor(h[1], T_exact)
        A2 == Anchor(h[1], T_joined)
        A3 == Anchor(h[2], T_exact)
        A4 == Anchor(h[2], T_other)
        A5 == Anchor(h[3], T_exact)
    IN  {<<>>, <<A1>>, <<A3>>, <<A4>>, <<A5>>,
         <<A1, A3>>, <<A3, A2>>, <<A4, A1>>, <<A1, A1>>, <<A5, A1>>}

\* the next-page links a page of the site may carry
NextLinks(a, pg) ==
    CASE a = "fetch_pornxp" -> {"", "/tags/a%20a?page=" \o ToString(pg + 1)}
      [] a = "scrape_hqporner" -> {"", "/?q=a+a&p=2", "/?q=a+a&p=1"}
      [] a = "fetch_gotanynudes" -> {"", "https://gotanynudes.com/page/2/?s=a+a"}
      [] a = "fetch_thotslife" ->
           {"", "https://thotslife.com/page/2/?s=a a", "https://thotslife.com/?s=a a"}
      [] a = "extract_jpg5_album_media_urls" -> {"", "/a/jane/?page=2", "https://jpg5.su/a/jane"}
      [] OTHER -> {""}

Bodies(a, pg) ==
    {Body(as, nx, FALSE) : as \in AnchorLists(a), nx \in NextLinks(a, pg)}
    \cup (IF a = "scrape_hqporner"
          THEN {Body(as, "", TRUE) : as \in {<<>>, <<Anchor(Hrefs(a)[1], T_exact)>>}}
          ELSE {})

\* the page a site that never runs dry serves as page pg: a new matching item
\* and a link to page pg + 1
ForeverBody(a, pg) ==
    Body(<<Anchor(Hrefs(a)[1] \o "-" \o ToString(pg), T_exact)>>,
         IF a = "fetch_pornxp" THEN "/tags/a%20a?page=" \o ToString(pg + 1)
         ELSE "/?q=a+a&p=" \o ToString(pg + 1),
         FALSE)

\* the pages of a site with finitely many items whose every page links to
\* another page of the chain, the first page included
CycleBodies(a, pg) ==
    LET h     == Hrefs(a)
        A1    == Anchor(h[1], T_exact)
        A3    == Anchor(h[2], T_exact)
        A5    == Anchor(h[3], T_exact)
        links == NextLinks(a, pg) \ {""}
    IN  {Body(as, nx, FALSE) :
           as \in {<<>>, <<A1>>, <<A3>>, <<A5>>, <<A1, A3>>, <<A3, A5>>},
           nx \in IF links = {} THEN {""} ELSE links}

\* what a GET of page pg may produce: a 200 page, an error status with a page
\* body, or an exception of the transport (connection error, timeout)
Responses(a, pg) ==
    IF server = "forever"
    THEN {Ok(200, ForeverBody(a, pg))}
    ELSE IF server = "cycle"
    THEN {Ok(200, b) : b \in CycleBodies(a, pg)}
    ELSE {Ok(200, b) : b \in Bodies(a, pg)}
         \cup {Ok(404, Body(as, "", FALSE)) : as \in {<<>>, <<Anchor(Hrefs(a)[1], T_exact)>>}}
         \cup {Exc}

FetchBound ==
    CASE server = "forever" -> MaxForeverFetch
      [] server = "cycle" -> MaxCycleFetch
      [] OTHER -> MaxFetch

\* the model follows a run for FetchBound requests
CanFetch == Len(requests) < FetchBound

hrefs_of(as) == [i \in 1..Len(as) |-> as[i].href]
titles_of(as) == [i \in 1..Len(as) |-> as[i].title]
stripped_titles_of(as) == [i \in 1..Len(as) |-> strip(as[i].title)]
prefixed(base, hs) == [i \in 1..Len(hs) |-> base \o hs[i]]

ToSet(l) == {l[i] : i \in 1..Len(l)}

\* list(set): the lists that hold every member of S once
ListsOf(S) == {l \in [1..Cardinality(S) -> S] : ToSet(l) = S}

-----------------------------------------------------------------------------
(* URL strings: the str and urllib.parse operations the resolvers use *)

char_at(s, i) == SubSeq(s, i, i)

\* str.find(c, i): the first index >= i holding the character c, 0 for none
RECURSIVE find_from(_, _, _)
find_from(s, c, i) ==
    IF i > Len(s) THEN 0
    ELSE IF char_at(s, i) = c THEN i ELSE find_from(s, c, i + 1)

\* str.rfind(c): the last index holding c, 0 for none
RECURSIVE rfind_from(_, _, _)
rfind_from(s, c, i) ==
    IF i < 1 THEN 0
    ELSE IF char_at(s, i) = c THEN i ELSE rfind_from(s, c, i - 1)

\* s.split(c, 1)[0]
before_first(s, c) ==
    LET k == find_from(s, c, 1) IN IF k = 0 THEN s ELSE SubSeq(s, 1, k - 1)

\* s.replace(c, d) for single characters
RECURSIVE replace_from(_, _, _, _)
replace_from(s, c, d, i) ==
    IF i > Len(s) THEN ""
    ELSE (IF char_at(s, i) = c THEN d ELSE char_at(s, i)) \o replace_from(s, c, d, i + 1)

replace(s, c, d) == replace_from(s, c, d, 1)

\* scheme://host of an absolute URL
origin(u) ==
    LET k0 == find_from(u, "/", 1)
        k  == find_from(u, "/", k0 + 2)
    IN  IF k = 0 THEN u ELSE SubSeq(u, 1, k - 1)

\* urllib.parse.urljoin(base, ref) for an absolute ref, a ref that starts with
\* "/" and a ref relative to the directory of base (no dot segments)
urljoin(base, ref) ==
    LET b    == before_first(before_first(base, "#"), "?")
        o    == origin(b)
        path == SubSeq(b, Len(o) + 1, Len(b))
        dir  == IF path = "" THEN "/" ELSE SubSeq(path, 1, rfind_from(path, "/", Len(path)))
    IN  IF ref = "" THEN base
        ELSE IF startswith(ref, "http://") \/ startswith(ref, "https://") THEN ref
        ELSE IF startswith(ref, "/") THEN o \o ref
        ELSE o \o dir \o ref

-----------------------------------------------------------------------------
(* The page loops of the sequential adapters: what one page contributes *)

\* a mutant of accepted_nsfw247: the relevance test left out of the count
accepted_nsfw247_any_title(as) ==
    SelectSeq(as, LAMBDA a : startswith(a.href, "https://nsfw247.to/"))

\* fetch_nsfw247: anchors of the site whose text is relevant
accepted_nsfw247(as) ==
    SelectSeq(as, LAMBDA a : /\ startswith(a.href, "https://nsfw247.to/")
                             /\ relevant_normalize(term, a.title))

\* fetch_hornysimp: "hornysimp.com" in href and the title relevant
accepted_hornysimp(as) ==
    SelectSeq(as, LAMBDA a : /\ contains("hornysimp.com", a.href)
                             /\ relevant_normalize(term, a.title))

\* fetch_bitchesgirls: href under /onlyfans/ and the text relevant
accepted_bitchesgirls(as) ==
    SelectSeq(as, LAMBDA a : /\ startswith(a.href, "/onlyfans/")
                             /\ relevant_normalize(term, a.title))

\* a mutant of accepted_gotanynudes: only the first relevant anchor is taken
accepted_gotanynudes_first(as) ==
    LET keep == SelectSeq(as, LAMBDA a : relevant_normalize(term, a.title))
    IN  IF keep = <<>> THEN <<>> ELSE <<Head(keep)>>

\* fetch_gotanynudes: the a.g1-frame anchors whose title is relevant
accepted_gotanynudes(as) ==
    SelectSeq(as, LAMBDA a : relevant_normalize(term, a.title))

\* extract_jpg5_album_media_urls: {img["src"] ... if "jpg5.su" in img["src"]}
found_jpg5(as) == {as[i].href : i \in {k \in 1..Len(as) : contains("jpg5.su", as[k].href)}}

\* a mutant of scan_seen: an href counts as new whether or not it was seen
RECURSIVE scan_seen_always_new(_, _, _, _, _)
scan_seen_always_new(as, sn, us, ts, new) ==
    IF as = <<>>
    THEN [seen |-> sn, urls |-> us, titles |-> ts, new |-> new]
    ELSE LET a == Head(as)
         IN  scan_seen_always_new(Tail(as), sn \cup {a.href}, Append(us, a.href),
                                  Append(ts, a.title), TRUE)

\* the loop `if href in seen: continue; seen.add(href); urls.append(href);
\* titles.append(title); new = True` of fetch_thothub
RECURSIVE scan_seen(_, _, _, _, _)
scan_seen(as, sn, us, ts, new) ==
    IF as = <<>>
    THEN [seen |-> sn, urls |-> us, titles |-> ts, new |-> new]
    ELSE LET a == Head(as)
         IN  IF a.href \in sn
             THEN scan_seen(Tail(as), sn, us, ts, new)
             ELSE scan_seen(Tail(as), sn \cup {a.href}, Append(us, a.href),
                            Append(ts, a.title), TRUE)

\* fetch_fanslyleaked: the anchors that pass the href tests, a leading "/"
\* resolved against the site
candidates_fanslyleaked(as) ==
    LET site == "https://ww1.fanslyleaked.com"
        full(a) == IF startswith(a.href, "/") THEN Anchor(site \o a.href, a.title) ELSE a
        kept(a) == /\ startswith(a.href, site \o "/")
                   /\ ~contains("/page/", a.href)
                   /\ ~contains("?s=", a.href)
                   /\ ~contains("#", a.href)
    IN  SelectSeq([i \in 1..Len(as) |-> full(as[i])], kept)

\* a mutant of take_hqporner: the seen set is not consulted
take_hqporner_unseen_unchecked(full_url, raw, sn) == relevant_hqporner(term, raw)

\* scrape_hqporner: `normalized_name in norm_title and full_url not in seen_urls`
take_hqporner(full_url, raw, sn) ==
    relevant_hqporner(term, raw) /\ full_url \notin sn

\* a mutant of scan_hqporner: no break when max_results is hit
RECURSIVE scan_hqporner_no_break(_, _, _, _, _)
scan_hqporner_no_break(as, sn, us, ts, found) ==
    IF as = <<>>
    THEN [seen |-> sn, urls |-> us, titles |-> ts, found |-> found]
    ELSE LET a        == Head(as)
             full_url == "https://hqporner.com" \o a.href
             t        == strip(a.title)
         IN  IF startswith(a.href, "/hdporn/") /\ take_hqporner(full_url, a.title, sn)
             THEN scan_hqporner_no_break(Tail(as), sn \cup {full_url},
                                         Append(us, full_url), Append(ts, t), found + 1)
             ELSE scan_hqporner_no_break(Tail(as), sn, us, ts, found)

\* the loop over soup.select('a.click-trigger') of scrape_hqporner
RECURSIVE scan_hqporner(_, _, _, _, _)
scan_hqporner(as, sn, us, ts, found) ==
    IF as = <<>>
    THEN [seen |-> sn, urls |-> us, titles |-> ts, found |-> found]
    ELSE LET a        == Head(as)
             full_url == "https://hqporner.com" \o a.href
             t        == strip(a.title)
         IN  IF ~startswith(a.href, "/hdporn/")
             THEN scan_hqporner(Tail(as), sn, us, ts, found)
             ELSE IF take_hqporner(full_url, a.title, sn)
                  THEN IF Len(us) + 1 >= max_results
                       THEN [seen |-> sn \cup {full_url}, urls |-> Append(us, full_url),
                             titles |-> Append(ts, t), found |-> found + 1]
                       ELSE scan_hqporner(Tail(as), sn \cup {full_url},
                                          Append(us, full_url), Append(ts, t), found + 1)
                  ELSE scan_hqporner(Tail(as), sn, us, ts, found)

-----------------------------------------------------------------------------
(* Idle values of the variable groups a specification does not use *)

relVars == <<title, verdict>>
dedupeVars == <<items, unique_media, again>>
pageVars == <<server, page, urls, titles, seen, queue, max_pages, max_results,
              requests, responses>>
fanVars == <<tasks, completed, results, held, output>>

RelIdle == title = <<>> /\ verdict = FALSE
DedupeIdle == items = <<>> /\ unique_media = <<>> /\ again = <<>>
PageIdle ==
    /\ server = "any" /\ page = 0 /\ urls = <<>> /\ titles = <<>> /\ seen = {}
    /\ queue = <<>> /\ max_pages = 0 /\ max_results = 0
    /\ requests = <<>> /\ responses = <<>>

FanIdle ==
    /\ tasks = <<>> /\ completed = <<>> /\ results = <<>> /\ held = <<>> /\ output = <<>>

galleryVars == <<endpoint, album_url>>

GalleryIdle == endpoint = "" /\ album_url = ""

authVars == <<invites, users, calls>>

\* load_json(path, {}) of a file that does not exist yet
EmptyJson == [k \in {} |-> FALSE]

AuthIdle == invites = EmptyJson /\ users = EmptyJson /\ calls = <<>>

NoSession == [opened |-> 0, open |-> 0, peak |-> 0]

\* `async with ClientSession() as session:` around the whole run, n sessions
\* deep: open from the first step on, closed when the run returns or raises
session_scope(n) ==
    sessions' = [opened |-> n,
                 open   |-> IF pc' \in {"done", "raised"} THEN 0 ELSE 1,
                 peak   |-> n]

\* `async with ClientSession() as session:` around one GET of a loop
session_per_page ==
    sessions' = [opened |-> sessions.opened + 1, open |-> 0, peak |-> 1]

-----------------------------------------------------------------------------
(* SpecRel: the relevance tests applied to every (term, title) pair *)

InitRel ==
    /\ adapter = "none"
    /\ pc = "start"
    /\ term \in StringsUpTo(MaxTermLen)
    /\ title \in StringsUpTo(MaxTitleLen)
    /\ verdict = FALSE
    /\ DedupeIdle
    /\ PageIdle
    /\ FanIdle
    /\ GalleryIdle
    /\ sessions = NoSession
    /\ AuthIdle

CheckNormalize ==
    /\ pc = "start"
    /\ adapter' = "_normalize"
    /\ verdict' = relevant_normalize(term, title)
    /\ pc' = "done"
    /\ UNCHANGED <<term, title, dedupeVars, pageVars, fanVars, galleryVars>>
    /\ UNCHANGED sessions
    /\ UNCHANGED authVars

CheckNotfans ==
    /\ pc = "start"
    /\ adapter' = "fetch_notfans"
    /\ verdict' = relevant_notfans(term, title)
    /\ pc' = "done"
    /\ UNCHANGED <<term, title, dedupeVars, pageVars, fanVars, galleryVars>>
    /\ UNCHANGED sessions
    /\ UNCHANGED authVars

CheckFullporner ==
    /\ pc = "start"
    /\ adapter' = "fetch_fullporner_page"
    /\ verdict' = relevant_fullporner(term, title)
    /\ pc' = "done"
    /\ UNCHANGED <<term, title, dedupeVars, pageVars, fanVars, galleryVars>>
    /\ UNCHANGED sessions
    /\ UNCHANGED authVars

CheckHqporner ==
    /\ pc = "start"
    /\ adapter' = "scrape_hqporner"
    /\ verdict' = relevant_hqporner(term, title)
    /\ pc' = "done"
    /\ UNCHANGED <<term, title, dedupeVars, pageVars, fanVars, galleryVars>>
    /\ UNCHANGED sessions
    /\ UNCHANGED authVars

NextRel == CheckNormalize \/ CheckNotfans \/ CheckFullporner \/ CheckHqporner

SpecRel == InitRel /\ [][NextRel]_vars

-----------------------------------------------------------------------------
(* SpecDedupe: the deduplication step applied to every input sequence *)

InitDedupe ==
    /\ adapter = "fetch_all_erome_media"
    /\ pc = "start"
    /\ term = <<>>
    /\ RelIdle
    /\ items \in ItemSeqsUpTo(MaxInputLen)
    /\ unique_media = <<>>
    /\ again = <<>>
    /\ PageIdle
    /\ FanIdle
    /\ GalleryIdle
    /\ sessions = NoSession
    /\ AuthIdle

ApplyDedupe ==
    /\ pc = "start"
    /\ unique_media' = dedupe(items)
    /\ pc' = "deduped"
    /\ UNCHANGED <<adapter, term, relVars, items, again, pageVars, fanVars, galleryVars>>
    /\ UNCHANGED sessions
    /\ UNCHANGED authVars

ApplyDedupeAgain ==
    /\ pc = "deduped"
    /\ again' = dedupe(unique_media)
    /\ pc' = "done"
    /\ UNCHANGED <<adapter, term, relVars, items, unique_media, pageVars, fanVars, galleryVars>>
    /\ UNCHANGED sessions
    /\ UNCHANGED authVars

NextDedupe == ApplyDedupe \/ ApplyDedupeAgain

SpecDedupe == InitDedupe /\ [][NextDedupe]_vars

-----------------------------------------------------------------------------
(* SpecPage: the sequential pagers, one action per loop iteration *)

DefaultMaxPages == 5
DefaultMaxResults == 100

PageAdapters ==
    {"fetch_nsfw247", "fetch_hornysimp", "fetch_bitchesgirls", "fetch_influencers",
     "fetch_thothub", "fetch_pornxp", "scrape_hqporner",
     "fetch_gotanynudes", "fetch_thotslife", "extract_jpg5_album_media_urls"}

InitPager(srv) ==
    /\ adapter \in PageAdapters
    /\ server = srv
    /\ pc = "run"
    /\ term = TermRun
    /\ RelIdle
    /\ DedupeIdle
    /\ page = IF adapter = "scrape_hqporner" THEN 0 ELSE 1
    /\ urls = <<>>
    /\ titles = <<>>
    /\ seen = {}
    /\ queue = CASE adapter = "scrape_hqporner" -> <<"https://hqporner.com/?q=a+a">>
                  [] adapter = "fetch_thotslife" -> <<"https://thotslife.com/?s=a a">>
                  [] adapter = "extract_jpg5_album_media_urls" -> <<"https://jpg5.su/a/jane">>
                  [] OTHER -> <<>>
    /\ max_pages \in IF adapter # "scrape_hqporner" THEN {0}
                     ELSE IF srv = "forever" THEN {DefaultMaxPages}
                     ELSE (0..MaxFetch) \cup {DefaultMaxPages}
    /\ max_results \in IF adapter # "scrape_hqporner" THEN {0}
                       ELSE IF srv = "forever" THEN {DefaultMaxResults}
                       ELSE {0, 1, 2, DefaultMaxResults}
    /\ requests = <<>>
    /\ responses = <<>>
    /\ FanIdle
    /\ GalleryIdle
    /\ sessions = NoSession
    /\ AuthIdle

InitPage == InitPager("any")

\* the request goes out and its outcome comes back
Fetched(url, resp) ==
    /\ requests' = Append(requests, url)
    /\ responses' = Append(responses, resp)

\* an exception of session.get leaves the adapter: none of these loops has a try
Raised ==
    /\ pc' = "raised"
    /\ UNCHANGED <<page, urls, titles, seen, galleryVars>>

\* the tail of the probe-until-empty loops: `if found == 0: break; page += 1`
ProbeUntilEmpty(acc, us, ts) ==
    /\ urls' = urls \o us
    /\ titles' = titles \o ts
    /\ IF Len(acc) = 0
       THEN pc' = "done" /\ page' = page
       ELSE pc' = "run" /\ page' = page + 1
    /\ UNCHANGED seen

Step_nsfw247 ==
    /\ adapter = "fetch_nsfw247" /\ pc = "run" /\ CanFetch
    /\ \E resp \in Responses(adapter, page) :
         LET base == "https://nsfw247.to/search/a-a-0z5g7jn9"
             url  == IF page = 1 THEN base ELSE base \o "/page/" \o ToString(page) \o "/"
         IN  /\ Fetched(url, resp)
             /\ IF resp.kind = "exc"
                THEN Raised
                ELSE LET acc == accepted_nsfw247(resp.body.anchors)
                     IN  ProbeUntilEmpty(acc, hrefs_of(acc), stripped_titles_of(acc))
    /\ UNCHANGED <<adapter, term, server, queue, max_pages, max_results, relVars, dedupeVars, fanVars, galleryVars>>
    /\ session_scope(1)
    /\ UNCHANGED authVars

Step_hornysimp ==
    /\ adapter = "fetch_hornysimp" /\ pc = "run" /\ CanFetch
    /\ \E resp \in Responses(adapter, page) :
         LET url == IF page = 1 THEN "https://hornysimp.com/?s=a+a"
                    ELSE "https://hornysimp.com/?s=a+a/?_page=" \o ToString(page)
         IN  /\ Fetched(url, resp)
             /\ IF resp.kind = "exc"
                THEN Raised
                ELSE LET acc == accepted_hornysimp(resp.body.anchors)
                     IN  ProbeUntilEmpty(acc, hrefs_of(acc), stripped_titles_of(acc))
    /\ UNCHANGED <<adapter, term, server, queue, max_pages, max_results, relVars, dedupeVars, fanVars, galleryVars>>
    /\ session_scope(1)
    /\ UNCHANGED authVars

Step_bitchesgirls ==
    /\ adapter = "fetch_bitchesgirls" /\ pc = "run" /\ CanFetch
    /\ \E resp \in Responses(adapter, page) :
         LET url == "https://bitchesgirls.com/search/a%20a/" \o ToString(page) \o "/"
         IN  /\ Fetched(url, resp)
             /\ IF resp.kind = "exc"
                THEN Raised
                ELSE LET acc == accepted_bitchesgirls(resp.body.anchors)
                     IN  ProbeUntilEmpty(acc,
                                         prefixed("https://bitchesgirls.com", hrefs_of(acc)),
                                         stripped_titles_of(acc))
    /\ UNCHANGED <<adapter, term, server, queue, max_pages, max_results, relVars, dedupeVars, fanVars, galleryVars>>
    /\ session_scope(1)
    /\ UNCHANGED authVars

\* fetch_influencers: every a.g1-frame of the page is taken; an empty page ends
Step_influencers ==
    /\ adapter = "fetch_influencers" /\ pc = "run" /\ CanFetch
    /\ \E resp \in Responses(adapter, page) :
         LET url == "https://influencersgonewild.com/?s=a a&paged=" \o ToString(page)
         IN  /\ Fetched(url, resp)
             /\ IF resp.kind = "exc"
                THEN Raised
                ELSE LET its == resp.body.anchors
                     IN  /\ urls' = urls \o hrefs_of(its)
                         /\ titles' = titles \o titles_of(its)
                         /\ IF its = <<>>
                            THEN pc' = "done" /\ page' = page
                            ELSE pc' = "run" /\ page' = page + 1
                         /\ UNCHANGED seen
    /\ UNCHANGED <<adapter, term, server, queue, max_pages, max_results, relVars, dedupeVars, fanVars, galleryVars>>
    /\ session_scope(1)
    /\ UNCHANGED authVars

\* fetch_thothub: a page without a new href ends the loop
Step_thothub ==
    /\ adapter = "fetch_thothub" /\ pc = "run" /\ CanFetch
    /\ \E resp \in Responses(adapter, page) :
         LET url == "https://thothub.to/search/a a/?page=" \o ToString(page)
         IN  /\ Fetched(url, resp)
             /\ IF resp.kind = "exc"
                THEN Raised
                ELSE LET r == scan_seen(resp.body.anchors, seen, urls, titles, FALSE)
                     IN  /\ seen' = r.seen
                         /\ urls' = r.urls
                         /\ titles' = r.titles
                         /\ IF ~r.new
                            THEN pc' = "done" /\ page' = page
                            ELSE pc' = "run" /\ page' = page + 1
    /\ UNCHANGED <<adapter, term, server, queue, max_pages, max_results, relVars, dedupeVars, fanVars, galleryVars>>
    /\ session_scope(1)
    /\ UNCHANGED authVars

\* fetch_pornxp: every /videos/<n> link is taken; the loop goes on while the
\* page links to ?page=<page+1>
Step_pornxp ==
    /\ adapter = "fetch_pornxp" /\ pc = "run" /\ CanFetch
    /\ \E resp \in Responses(adapter, page) :
         LET url == "https://pornxp.com/tags/a%20a"
                    \o (IF page > 1 THEN "?page=" \o ToString(page) ELSE "")
         IN  /\ Fetched(url, resp)
             /\ IF resp.kind = "exc"
                THEN Raised
                ELSE LET links == SelectSeq(resp.body.anchors,
                                            LAMBDA a : startswith(a.href, "/videos/"))
                     IN  /\ urls' = urls \o prefixed("https://pornxp.com", hrefs_of(links))
                         /\ titles' = titles \o stripped_titles_of(links)
                         /\ IF links = <<>>
                            THEN pc' = "done" /\ page' = page
                            ELSE IF contains("/tags/a%20a?page=" \o ToString(page + 1),
                                             resp.body.next)
                                 THEN pc' = "run" /\ page' = page + 1
                                 ELSE pc' = "done" /\ page' = page
                         /\ UNCHANGED seen
    /\ UNCHANGED <<adapter, term, server, queue, max_pages, max_results, relVars, dedupeVars, fanVars, galleryVars>>
    /\ session_per_page
    /\ UNCHANGED authVars

\* a mutant of range_exhausted: one iteration more
range_exhausted_late(page_idx, n) == page_idx > n

\* `for page_idx in range(n)` has run out
range_exhausted(page_idx, n) == page_idx >= n

\* scrape_hqporner: the breaks at the top of `for page_idx in range(max_pages)`
Exit_hqporner ==
    /\ adapter = "scrape_hqporner" /\ pc = "run"
    /\ \/ range_exhausted(page, max_pages)
       \/ queue = <<>>
       \/ Len(urls) >= max_results
    /\ pc' = "done"
    /\ UNCHANGED <<adapter, term, relVars, dedupeVars, pageVars, fanVars, galleryVars>>
    /\ session_scope(1)
    /\ UNCHANGED authVars

\* scrape_hqporner: one page of the crawl
Step_hqporner ==
    /\ adapter = "scrape_hqporner" /\ pc = "run" /\ CanFetch
    /\ ~range_exhausted(page, max_pages) /\ queue # <<>> /\ Len(urls) < max_results
    /\ \E resp \in Responses(adapter, page + 1) :
         LET url  == Head(queue)
             rest == Tail(queue)
         IN  /\ Fetched(url, resp)
             /\ IF resp.kind = "exc"
                THEN Raised /\ queue' = rest
                ELSE IF page = 0 /\ resp.body.sorry
                THEN /\ pc' = "done"
                     /\ queue' = rest
                     /\ UNCHANGED <<page, urls, titles, seen>>
                ELSE LET r  == scan_hqporner(resp.body.anchors, seen, urls, titles, 0)
                         nx == resp.body.next
                         full_next == IF startswith(nx, "/")
                                      THEN "https://hqporner.com" \o nx ELSE nx
                     IN  /\ seen' = r.seen
                         /\ urls' = r.urls
                         /\ titles' = r.titles
                         /\ IF r.found = 0
                            THEN pc' = "done" /\ page' = page /\ queue' = rest
                            ELSE /\ pc' = "run"
                                 /\ page' = page + 1
                                 /\ queue' = IF nx # "" /\ \A k \in 1..Len(rest) : rest[k] # full_next
                                             THEN Append(rest, full_next) ELSE rest
    /\ UNCHANGED <<adapter, term, server, max_pages, max_results, relVars, dedupeVars, fanVars, galleryVars>>
    /\ session_scope(1)
    /\ UNCHANGED authVars

\* fetch_gotanynudes: the load-more link only says whether to go on; the next
\* URL comes from the page counter
Step_gotanynudes ==
    /\ adapter = "fetch_gotanynudes" /\ pc = "run" /\ CanFetch
    /\ \E resp \in Responses(adapter, page) :
         LET url == IF page = 1 THEN "https://gotanynudes.com/?s=a+a"
                    ELSE "https://gotanynudes.com/page/" \o ToString(page) \o "/?s=a+a"
         IN  /\ Fetched(url, resp)
             /\ IF resp.kind = "exc"
                THEN Raised
                ELSE LET acc == accepted_gotanynudes(resp.body.anchors)
                     IN  /\ urls' = urls \o hrefs_of(acc)
                         /\ titles' = titles \o stripped_titles_of(acc)
                         /\ IF resp.body.next = "" \/ Len(acc) = 0
                            THEN pc' = "done" /\ page' = page
                            ELSE pc' = "run" /\ page' = page + 1
                         /\ UNCHANGED seen
    /\ UNCHANGED <<adapter, term, server, queue, max_pages, max_results, relVars, dedupeVars, fanVars, galleryVars>>
    /\ session_scope(1)
    /\ UNCHANGED authVars

\* fetch_thotslife: `while next_url`, the queue holding next_url; the loop ends
\* on a page without a load-more link or without a new href
Step_thotslife ==
    /\ adapter = "fetch_thotslife" /\ pc = "run" /\ CanFetch
    /\ queue # <<>>
    /\ \E resp \in Responses(adapter, page) :
         /\ Fetched(Head(queue), resp)
         /\ IF resp.kind = "exc"
            THEN Raised /\ UNCHANGED queue
            ELSE LET r == scan_seen(resp.body.anchors, seen, urls, titles, FALSE)
                 IN  /\ seen' = r.seen
                     /\ urls' = r.urls
                     /\ titles' = r.titles
                     /\ IF resp.body.next = "" \/ ~r.new
                        THEN pc' = "done" /\ page' = page /\ UNCHANGED queue
                        ELSE pc' = "run" /\ page' = page + 1 /\ queue' = <<resp.body.next>>
    /\ UNCHANGED <<adapter, term, server, max_pages, max_results, relVars, dedupeVars, fanVars, galleryVars>>
    /\ session_scope(1)
    /\ UNCHANGED authVars

\* extract_jpg5_album_media_urls: `while next_page`, the queue holding
\* next_page and seen the set `urls`; `return list(urls)` when the loop ends
Step_jpg5 ==
    /\ adapter = "extract_jpg5_album_media_urls" /\ pc = "run" /\ CanFetch
    /\ queue # <<>>
    /\ \E resp \in Responses(adapter, page) :
         /\ Fetched(Head(queue), resp)
         /\ IF resp.kind = "exc"
            THEN Raised /\ UNCHANGED queue
            ELSE LET found == found_jpg5(resp.body.anchors)
                     nx    == resp.body.next
                     stop  == resp.status # 200 \/ found = {} \/ found \subseteq seen
                 IN  /\ seen' = IF stop THEN seen ELSE seen \cup found
                     /\ titles' = titles
                     /\ IF stop \/ nx = ""
                        THEN /\ pc' = "done" /\ page' = page /\ UNCHANGED queue
                             /\ urls' \in ListsOf(seen')
                        ELSE /\ pc' = "run" /\ page' = page + 1
                             /\ queue' = <<IF startswith(nx, "http") THEN nx
                                           ELSE "https://jpg5.su" \o nx>>
                             /\ UNCHANGED urls
    /\ UNCHANGED <<adapter, term, server, max_pages, max_results, relVars, dedupeVars, fanVars, galleryVars>>
    /\ session_scope(1)
    /\ UNCHANGED authVars

NextPage ==
    \/ Step_nsfw247
    \/ Step_hornysimp
    \/ Step_bitchesgirls
    \/ Step_influencers
    \/ Step_thothub
    \/ Step_pornxp
    \/ Exit_hqporner
    \/ Step_hqporner
    \/ Step_gotanynudes
    \/ Step_thotslife
    \/ Step_jpg5

SpecPage == InitPage /\ [][NextPage]_vars

\* the same adapters against a site that serves a new matching item and a
\* next-page link on every page
InitForever == InitPager("forever")

SpecForever == InitForever /\ [][NextPage]_vars

\* scrape_hqporner alone, against either site, with a page cap within the
\* number of exchanges a run of the model may have; the event loop resumes
\* the crawl whenever an exchange has ended
InitHqporner ==
    /\ InitPager("any") \/ InitPager("forever")
    /\ adapter = "scrape_hqporner"
    /\ max_pages <= FetchBound

NextHqporner == Exit_hqporner \/ Step_hqporner

\* fetch_fanslyleaked: a page without a new href ends the loop
Step_fanslyleaked ==
    /\ adapter = "fetch_fanslyleaked" /\ pc = "run" /\ CanFetch
    /\ \E resp \in Responses(adapter, page) :
         LET url == "https://ww1.fanslyleaked.com/page/" \o ToString(page) \o "/?s=a a"
         IN  /\ Fetched(url, resp)
             /\ IF resp.kind = "exc"
                THEN Raised
                ELSE LET r == scan_seen(candidates_fanslyleaked(resp.body.anchors),
                                        seen, urls, titles, FALSE)
                     IN  /\ seen' = r.seen
                         /\ urls' = r.urls
                         /\ titles' = r.titles
                         /\ IF ~r.new
                            THEN pc' = "done" /\ page' = page
                            ELSE pc' = "run" /\ page' = page + 1
    /\ UNCHANGED <<adapter, term, server, queue, max_pages, max_results, relVars, dedupeVars, fanVars, galleryVars>>
    /\ session_scope(1)
    /\ UNCHANGED authVars

\* the crawls that keep a seen set, against a site of finitely many items
\* whose pages link to one another in a cycle; the event loop resumes the
\* crawl whenever an exchange has ended
SeenAdapters ==
    {"fetch_thotslife", "extract_jpg5_album_media_urls", "fetch_thothub",
     "fetch_fanslyleaked", "scrape_hqporner"}

InitCycle ==
    /\ adapter \in SeenAdapters
    /\ server = "cycle"
    /\ pc = "run"
    /\ term = TermRun
    /\ RelIdle
    /\ DedupeIdle
    /\ page = IF adapter = "scrape_hqporner" THEN 0 ELSE 1
    /\ urls = <<>>
    /\ titles = <<>>
    /\ seen = {}
    /\ queue = CASE adapter = "scrape_hqporner" -> <<"https://hqporner.com/?q=a+a">>
                  [] adapter = "fetch_thotslife" -> <<"https://thotslife.com/?s=a a">>
                  [] adapter = "extract_jpg5_album_media_urls" -> <<"https://jpg5.su/a/jane">>
                  [] OTHER -> <<>>
    /\ max_pages = (IF adapter = "scrape_hqporner" THEN DefaultMaxPages ELSE 0)
    /\ max_results \in IF adapter = "scrape_hqporner" THEN {2, DefaultMaxResults} ELSE {0}
    /\ requests = <<>>
    /\ responses = <<>>
    /\ FanIdle
    /\ GalleryIdle
    /\ sessions = NoSession
    /\ AuthIdle

NextCycle ==
    \/ Step_thotslife
    \/ Step_jpg5
    \/ Step_thothub
    \/ Step_fanslyleaked
    \/ Exit_hqporner
    \/ Step_hqporner

SpecCycle == InitCycle /\ [][NextCycle]_vars /\ WF_vars(NextCycle)

SpecHqporner == InitHqporner /\ [][NextHqporner]_vars /\ WF_vars(NextHqporner)

-----------------------------------------------------------------------------
(* asyncio.gather fan-outs: the tasks run concurrently, one action per       *)
(* completed exchange of a task                                              *)

\* a task of a fan-out: its request, the responses it has got, where it
\* stands ("run", "ret", "raise") and the value it returned
Task(req) == [req |-> req, st |-> "run", got |-> <<>>, val |-> <<>>]

\* a mutant of gather_results: the results in the order the tasks finished
results_in_completion_order(ts, order) == [k \in 1..Len(order) |-> ts[order[k]].val]

\* results = await asyncio.gather(*tasks): one result per awaitable, in the
\* order of the awaitables
gather_results(ts, order) == [i \in 1..Len(ts) |-> ts[i].val]

\* asyncio.gather(..., return_exceptions=True) only in fetch_fapello_album_media
return_exceptions(a) == a = "fetch_fapello_album_media"

AllFinished == \A i \in 1..Len(tasks) : tasks[i].st # "run"
SomeRaised == \E i \in 1..Len(tasks) : tasks[i].st = "raise"

Max(S) == CHOOSE m \in S : \A n \in S : n <= m

\* fetch_fullporner_page: the (full_url, title) pairs of the relevant anchors
videos_fullporner(as) ==
    LET keep == SelectSeq(as, LAMBDA a : /\ a.href \notin {"/", "/pornstars", "/category"}
                                          /\ relevant_fullporner(term, a.title))
    IN  [i \in 1..Len(keep) |->
            [url |-> "https://fullporner.com" \o keep[i].href, title |-> strip(keep[i].title)]]

\* fetch_fullporner_page: last_page, read on page 1 only; 0 stands for None
last_page_fullporner(body, pg) ==
    IF pg = 1 /\ body.nums # {} THEN Max(body.nums) ELSE 0

url_fullporner(pg) == "https://fullporner.com/search?q=a+a&p=" \o ToString(pg)

\* what a GET of a page of fullporner may produce
Responses_fullporner(pg) ==
    {Ok(200, NumberedBody(as, ns)) :
        as \in AnchorLists("fetch_fullporner"),
        ns \in IF pg = 1 THEN {{}} \cup {1..k : k \in 1..MaxLastPage} ELSE {{}}}
    \cup {Ok(404, Body(as, "", FALSE)) :
            as \in {<<>>, <<Anchor(Hrefs("fetch_fullporner")[1], T_exact)>>}}
    \cup {Exc}

\* a mutant of extend_until_empty: a page without videos is passed over
RECURSIVE extend_past_empty(_, _)
extend_past_empty(all, res) ==
    IF res = <<>>
    THEN all
    ELSE extend_past_empty(all \o Head(res), Tail(res))

\* the loop over the gathered pages: `if not vids: break; all_videos.extend(vids)`
RECURSIVE extend_until_empty(_, _)
extend_until_empty(all, res) ==
    IF res = <<>> \/ Head(res) = <<>>
    THEN all
    ELSE extend_until_empty(all \o Head(res), Tail(res))

\* a mutant of unzip: the titles come out in the reverse order
unzip_titles_reversed(all) ==
    [urls |-> [i \in 1..Len(all) |-> all[i].url],
     titles |-> [i \in 1..Len(all) |-> all[Len(all) + 1 - i].title]]

\* urls, titles = zip(*all_videos) if all_videos else ([], [])
unzip(all) ==
    [urls |-> [i \in 1..Len(all) |-> all[i].url],
     titles |-> [i \in 1..Len(all) |-> all[i].title]]

\* the album a direct run of fetch_fapello_album_media is called with
AlbumUrl_fapello == "https://fapello.com/jane/"

InitFanOf(a) ==
    /\ adapter = a
    /\ pc = "start"
    /\ term = TermRun
    /\ RelIdle
    /\ DedupeIdle
    /\ PageIdle
    /\ FanIdle
    /\ endpoint = ""
    /\ album_url = IF a = "fetch_fapello_album_media" THEN AlbumUrl_fapello ELSE ""
    /\ sessions = NoSession
    /\ AuthIdle

pagerOnlyVars == <<page, urls, titles, seen, queue, max_pages, max_results, responses>>

\* fetch_fullporner: page 1, then the fan-out over pages 2..last_page
Start_fullporner ==
    /\ adapter = "fetch_fullporner" /\ pc = "start"
    /\ \E resp \in Responses_fullporner(1) :
         /\ Fetched(url_fullporner(1), resp)
         /\ IF resp.kind = "exc"
            THEN pc' = "raised" /\ UNCHANGED <<tasks, held, output>>
            ELSE LET first_videos == videos_fullporner(resp.body.anchors)
                     last_page    == last_page_fullporner(resp.body, 1)
                 IN  IF first_videos = <<>>
                     THEN /\ pc' = "done"
                          /\ output' = [urls |-> <<>>, titles |-> <<>>]
                          /\ UNCHANGED <<tasks, held>>
                     ELSE IF last_page > 1
                     THEN /\ pc' = "gather"
                          /\ held' = first_videos
                          /\ tasks' = [i \in 1..(last_page - 1) |-> Task(url_fullporner(i + 1))]
                          /\ UNCHANGED output
                     ELSE /\ pc' = "done"
                          /\ held' = first_videos
                          /\ output' = unzip(first_videos)
                          /\ UNCHANGED tasks
    /\ UNCHANGED <<adapter, term, server, relVars, dedupeVars, page, urls, titles, seen, queue,
                 max_pages, max_results, completed, results, galleryVars>>
    /\ session_scope(1)
    /\ UNCHANGED authVars

\* the exchange of one fetch_fullporner_page task: the status is not read, an
\* exception is not caught
step_fullporner(t, resp) ==
    IF resp.kind = "exc"
    THEN [t EXCEPT !.st = "raise", !.got = Append(@, resp)]
    ELSE [t EXCEPT !.st = "ret", !.got = Append(@, resp),
                   !.val = videos_fullporner(resp.body.anchors)]

TaskStep_fullporner(i) ==
    /\ adapter = "fetch_fullporner" /\ pc = "gather"
    /\ tasks[i].st = "run" /\ ~SomeRaised
    /\ \E resp \in Responses_fullporner(i + 1) :
         /\ tasks' = [tasks EXCEPT ![i] = step_fullporner(@, resp)]
         /\ completed' = Append(completed, i)
    /\ UNCHANGED <<adapter, pc, term, relVars, dedupeVars, pageVars, results, held, output, galleryVars>>
    /\ session_scope(1)
    /\ UNCHANGED authVars

\* gather hands the first exception of a task to the awaiting function, which
\* has no handler: the run ends with the exception
GatherRaise ==
    /\ pc = "gather" /\ ~return_exceptions(adapter) /\ SomeRaised
    /\ pc' = "raised"
    /\ UNCHANGED <<adapter, term, relVars, dedupeVars, pageVars, fanVars, galleryVars>>
    /\ session_scope(1)
    /\ UNCHANGED authVars

GatherReturn_fullporner ==
    /\ adapter = "fetch_fullporner" /\ pc = "gather"
    /\ AllFinished /\ ~SomeRaised
    /\ results' = gather_results(tasks, completed)
    /\ output' = unzip(extend_until_empty(held, results'))
    /\ pc' = "done"
    /\ UNCHANGED <<adapter, term, relVars, dedupeVars, pageVars, tasks, completed, held, galleryVars>>
    /\ session_scope(1)
    /\ UNCHANGED authVars

-----------------------------------------------------------------------------
(* fetch_all_erome_media: two fetches per album, all gathered *)

VIDEO_THUMB == "https://media.discordapp.net/attachments/1343576085098664020/1364464992593772644/raw.png"

\* a response with the URL the exchange ended on, str(resp.url)
OkAt(st, b, u) == [kind |-> "ok", status |-> st, body |-> b, url |-> u]

\* an album page: the data-src of its div.img elements ("" for none) and its
\* <video> elements, each with its poster ("" for none) and the src of its
\* first video/mp4 <source> ("" for none)
EromeBody(is, vs) == [imgs |-> is, videos |-> vs]
VideoTag(p, sr) == [poster |-> p, src |-> sr]

EromeBodies ==
    {EromeBody(<<>>, <<>>),
     EromeBody(<<"https://s.erome.com/1.jpg">>,
               <<VideoTag("https://s.erome.com/p.jpg", "https://v.erome.com/2.mp4?t=1")>>),
     EromeBody(<<"https://s.erome.com/thumb/1.jpg", "https://s.erome.com/1.jpg", "/3.jpg", "">>,
               <<VideoTag("", ""), VideoTag("", "https://v.erome.com/2.mp4?t=2"),
                 VideoTag("/p/3.jpg", "/v/3.mp4?t=3?u=4")>>)}

\* the GET follows redirects: an album may answer from a URL below its own
Responses_erome(u) ==
    {OkAt(200, b, u) : b \in EromeBodies}
    \cup {OkAt(200, EromeBody(<<"5.jpg", "thumb/5.jpg">>,
                         <<VideoTag("p/5.jpg", "v/5.mp4?t=5")>>),
                u \o "/full")}
    \cup {OkAt(404, b, u) : b \in {EromeBody(<<>>, <<>>),
                                   EromeBody(<<"https://s.erome.com/4.jpg">>, <<>>)}}
    \cup {Exc}

\* fetch_image_urls: the status is not read
fetch_image_urls(resp) ==
    LET keep == SelectSeq(resp.body.imgs, LAMBDA d : d # "" /\ ~contains("/thumb/", d))
    IN  [i \in 1..Len(keep) |-> ImageItem(urljoin(resp.url, keep[i]))]

\* a mutant of fetch_video_urls: the query string left on the URL
fetch_video_urls_with_query(resp) ==
    LET keep == SelectSeq(resp.body.videos, LAMBDA v : v.src # "")
    IN  [i \in 1..Len(keep) |->
            VideoItem(urljoin(resp.url, keep[i].src),
                      IF keep[i].poster # "" THEN urljoin(resp.url, keep[i].poster)
                      ELSE VIDEO_THUMB)]

\* fetch_video_urls: the status is not read
fetch_video_urls(resp) ==
    LET keep == SelectSeq(resp.body.videos, LAMBDA v : v.src # "")
    IN  [i \in 1..Len(keep) |->
            VideoItem(urljoin(resp.url, before_first(keep[i].src, "?")),
                      IF keep[i].poster # "" THEN urljoin(resp.url, keep[i].poster)
                      ELSE VIDEO_THUMB)]

\* the albums handed to fetch_all_erome_media
AlbumUrlLists ==
    {<<"https://www.erome.com/a/A1">>,
     <<"https://www.erome.com/a/A1", "https://www.erome.com/a/A2">>}

\* for imgs, vids in results: all_items.extend(imgs); all_items.extend(vids)
RECURSIVE flatten_pairs(_)
flatten_pairs(res) ==
    IF res = <<>> THEN <<>>
    ELSE Head(res)[1] \o Head(res)[2] \o flatten_pairs(Tail(res))

\* tasks 2k-1 and 2k are fetch_image_urls and fetch_video_urls of album k
Start_erome ==
    /\ adapter = "fetch_all_erome_media" /\ pc = "start"
    /\ \E album_urls \in AlbumUrlLists :
         /\ held' = album_urls
         /\ tasks' = [i \in 1..(2 * Len(album_urls)) |-> Task(album_urls[(i + 1) \div 2])]
    /\ pc' = "gather"
    /\ UNCHANGED <<adapter, term, relVars, dedupeVars, pageVars, completed, results, output, galleryVars>>
    /\ session_scope(1)
    /\ UNCHANGED authVars

\* get_webpage_content has no handler, and neither has its caller
step_erome(t, i, resp) ==
    IF resp.kind = "exc"
    THEN [t EXCEPT !.st = "raise", !.got = Append(@, resp)]
    ELSE [t EXCEPT !.st = "ret", !.got = Append(@, resp),
                   !.val = IF i % 2 = 1 THEN fetch_image_urls(resp)
                           ELSE fetch_video_urls(resp)]

TaskStep_erome(i) ==
    /\ adapter = "fetch_all_erome_media" /\ pc = "gather"
    /\ tasks[i].st = "run" /\ ~SomeRaised
    /\ \E resp \in Responses_erome(tasks[i].req) :
         /\ tasks' = [tasks EXCEPT ![i] = step_erome(@, i, resp)]
         /\ completed' = Append(completed, i)
    /\ UNCHANGED <<adapter, pc, term, relVars, dedupeVars, pageVars, results, held, output, galleryVars>>
    /\ session_scope(1)
    /\ UNCHANGED authVars

\* the inner gathers return (imgs, vids), the outer one the list of these
GatherReturn_erome ==
    /\ adapter = "fetch_all_erome_media" /\ pc = "gather"
    /\ AllFinished /\ ~SomeRaised
    /\ LET flat == gather_results(tasks, completed)
       IN  results' = [k \in 1..(Len(tasks) \div 2) |-> <<flat[2 * k - 1], flat[2 * k]>>]
    /\ items' = flatten_pairs(results')
    /\ unique_media' = dedupe(items')
    /\ output' = unique_media'
    /\ pc' = "done"
    /\ UNCHANGED <<adapter, term, relVars, again, pageVars, tasks, completed, held, galleryVars>>
    /\ session_scope(1)
    /\ UNCHANGED authVars

-----------------------------------------------------------------------------
(* fetch_fapello_album_media: one fetch per numbered page of the album *)

Digits == {"0", "1", "2", "3", "4", "5", "6", "7", "8", "9"}

\* the number of digits s ends with, counted back from index i
RECURSIVE digits_back(_, _)
digits_back(s, i) ==
    IF i >= 1 /\ char_at(s, i) \in Digits THEN 1 + digits_back(s, i - 1) ELSE 0

\* re.search(r"/\d+/?$", href)
ends_with_number(href) ==
    LET n == Len(href)
        e == IF n >= 1 /\ char_at(href, n) = "/" /\ digits_back(href, n - 1) > 0
             THEN n - 1 ELSE n
        k == digits_back(href, e)
    IN  k > 0 /\ e - k >= 1 /\ char_at(href, e - k) = "/"

\* str.strip("/")
RECURSIVE strip_slashes(_)
strip_slashes(s) ==
    IF s # "" /\ char_at(s, 1) = "/" THEN strip_slashes(SubSeq(s, 2, Len(s)))
    ELSE IF s # "" /\ char_at(s, Len(s)) = "/" THEN strip_slashes(SubSeq(s, 1, Len(s) - 1))
    ELSE s

\* urlparse(album_url).path.strip("/").split("/")[0]
username_of(album) ==
    LET b == before_first(before_first(album, "#"), "?")
    IN  before_first(strip_slashes(SubSeq(b, Len(origin(b)) + 1, Len(b))), "/")

\* the album page: the hrefs of its anchors; a media page: the src (or
\* data-src) of its <img> elements and of its video/mp4 <source> elements
FapelloAlbumBody(hs) == [hrefs |-> hs]
FapelloBody(is, vs) == [imgs |-> is, vids |-> vs]

FapelloAlbumBodies ==
    {FapelloAlbumBody(<<>>),
     FapelloAlbumBody(<<"https://fapello.com/jane/2/", "https://fapello.com/jane/2/",
                        "https://fapello.com/jane/">>),
     FapelloAlbumBody(<<"https://fapello.com/jane/1/", "/jane/2", "2/x",
                        "https://fapello.com/other/1/">>)}

FapelloBodies ==
    {FapelloBody(<<>>, <<>>),
     FapelloBody(<<"https://fapello.com/content/j/a/jane/1000/jane_0001.jpg",
                   "https://fapello.com/content/j/a/jane/1000/jane_0001.jpg",
                   "https://fapello.com/content/j/a/jane/thumb/jane_0001.jpg",
                   "https://fapello.com/content/o/t/other/1000/other_0001.jpg">>,
                 <<"https://cdn.fapello.com/content/j/a/jane/1000/jane_0003.mp4">>),
     FapelloBody(<<"https://fapello.com/content/j/a/jane/1000/jane_0002.jpg",
                   "https://fapello.com/content/j/a/jane/1000/jane_0001.jpg",
                   "https://cdn.fapello.com/jane/avatar.jpg">>,
                 <<"https://cdn.fapello.com/content/o/t/other/1000/other_0003.mp4">>)}

Responses_fapello_album(u) ==
    {OkAt(200, b, u) : b \in FapelloAlbumBodies}
    \cup {OkAt(404, FapelloAlbumBody(<<"https://fapello.com/jane/1/">>), u), Exc}

Responses_fapello(u) ==
    {OkAt(200, b, u) : b \in FapelloBodies}
    \cup {OkAt(404, b, u) :
            b \in {FapelloBody(<<"https://fapello.com/content/j/a/jane/1000/jane_0001.jpg">>, <<>>)}}
    \cup {Exc}

\* the page URLs of the album: joined hrefs under album_url that end in a number
pages_fapello(album, resp) ==
    LET found == {urljoin(resp.url, h) : h \in
                    {x \in ToSet(resp.body.hrefs) :
                        /\ startswith(urljoin(resp.url, x), album)
                        /\ ends_with_number(x)}}
    IN  IF found = {} THEN {album} ELSE found

EmptyMedia == [images |-> <<>>, videos |-> <<>>]

\* the sets behind unique_imgs and unique_vids of fetch_fapello_page_media
images_fapello(resp, username) ==
    {x \in ToSet(resp.body.imgs) :
        /\ x # ""
        /\ startswith(x, "https://fapello.com/content/")
        /\ contains("/" \o username \o "/", x)}

videos_fapello(resp, username) ==
    {x \in ToSet(resp.body.vids) : x # "" /\ contains("/" \o username \o "/", x)}

Start_fapello ==
    /\ adapter = "fetch_fapello_album_media" /\ pc = "start"
    /\ \E resp \in Responses_fapello_album(album_url) :
         /\ requests' = Append(requests, album_url)
         /\ IF resp.kind = "exc"
            THEN pc' = "raised" /\ UNCHANGED <<tasks, held, output>>
            ELSE IF resp.status # 200
            THEN pc' = "done" /\ output' = EmptyMedia /\ UNCHANGED <<tasks, held>>
            ELSE /\ pc' = "gather"
                 /\ held' = username_of(album_url)
                 /\ \E l \in ListsOf(pages_fapello(album_url, resp)) :
                      tasks' = [i \in 1..Len(l) |-> Task(l[i])]
                 /\ UNCHANGED output
    /\ UNCHANGED <<adapter, term, server, relVars, dedupeVars, pagerOnlyVars, completed, results, galleryVars>>
    /\ session_scope(1)
    /\ UNCHANGED authVars

\* fetch_fapello_page_media: any exception and any status but 200 give the
\* empty media; the two lists come out of sets
TaskStep_fapello(i) ==
    /\ adapter = "fetch_fapello_album_media" /\ pc = "gather"
    /\ tasks[i].st = "run"
    /\ \E resp \in Responses_fapello(tasks[i].req) :
         /\ IF resp.kind = "exc" \/ resp.status # 200
            THEN tasks' = [tasks EXCEPT ![i] =
                             [tasks[i] EXCEPT !.st = "ret", !.got = Append(@, resp), !.val = EmptyMedia]]
            ELSE \E is \in ListsOf(images_fapello(resp, held)),
                    vs \in ListsOf(videos_fapello(resp, held)) :
                   tasks' = [tasks EXCEPT ![i] =
                               [tasks[i] EXCEPT !.st = "ret", !.got = Append(@, resp),
                                         !.val = [images |-> is, videos |-> vs]]]
         /\ completed' = Append(completed, i)
    /\ UNCHANGED <<adapter, pc, term, relVars, dedupeVars, pageVars, results, held, output, galleryVars>>
    /\ session_scope(1)
    /\ UNCHANGED authVars

RECURSIVE extend_field(_, _)
extend_field(res, f) ==
    IF res = <<>> THEN <<>> ELSE Head(res)[f] \o extend_field(Tail(res), f)

\* return_exceptions=True: no result is an exception, every result is merged;
\* the two lists of the answer come out of sets again
GatherReturn_fapello ==
    /\ adapter = "fetch_fapello_album_media" /\ pc = "gather"
    /\ AllFinished
    /\ results' = gather_results(tasks, completed)
    /\ \E is \in ListsOf(ToSet(extend_field(results', "images"))),
          vs \in ListsOf(ToSet(extend_field(results', "videos"))) :
         output' = [images |-> is, videos |-> vs]
    /\ pc' = "done"
    /\ UNCHANGED <<adapter, term, relVars, dedupeVars, pageVars, tasks, completed, held, galleryVars>>
    /\ session_scope(1)
    /\ UNCHANGED authVars

-----------------------------------------------------------------------------
(* fetch_notfans: page 1, then one _fetch_page task per AJAX pagination link *)

\* the search page: the a[href^="https://notfans.com/videos/"] anchors with
\* their strong.title text, and the data-parameters of the AJAX links
NotfansBody(as, ps) == [anchors |-> as, params |-> ps]

ParamLists == {<<>>, <<"sort_by:post_date;from:2">>, <<"from:2", "from:3">>}

FirstUrl_notfans == "https://notfans.com/search/a+a/"

Responses_notfans(first) ==
    {Ok(200, NotfansBody(as, ps)) :
        as \in AnchorLists("fetch_notfans"),
        ps \in IF first THEN ParamLists ELSE {<<>>}}
    \cup {Ok(404, NotfansBody(<<Anchor(Hrefs("fetch_notfans")[1], T_exact)>>, <<>>)), Exc}

\* the (urls, titles) the loop over the anchors of one page collects
items_notfans(body) ==
    LET keep == SelectSeq(body.anchors, LAMBDA a : relevant_notfans(term, a.title))
    IN  [urls |-> [i \in 1..Len(keep) |->
                      IF startswith(keep[i].href, "http") THEN keep[i].href
                      ELSE "https://notfans.com" \o keep[i].href],
         titles |-> [i \in 1..Len(keep) |-> strip(keep[i].title)]]

\* f"{first_url}?{qs}" with qs = p.replace(":", "=").replace(";", "&")
page_urls_notfans(params) ==
    [i \in 1..Len(params) |->
        FirstUrl_notfans \o "?" \o replace(replace(params[i], ":", "="), ";", "&")]

EmptyPage == [urls |-> <<>>, titles |-> <<>>]

Start_notfans ==
    /\ adapter = "fetch_notfans" /\ pc = "start"
    /\ \E resp \in Responses_notfans(TRUE) :
         /\ Fetched(FirstUrl_notfans, resp)
         /\ IF resp.kind = "exc"
            THEN pc' = "raised" /\ UNCHANGED <<tasks, held, output>>
            ELSE IF resp.status # 200
            THEN pc' = "done" /\ output' = EmptyPage /\ UNCHANGED <<tasks, held>>
            ELSE /\ pc' = "gather"
                 /\ held' = items_notfans(resp.body)
                 /\ tasks' = LET page_urls == page_urls_notfans(resp.body.params)
                             IN  [i \in 1..Len(page_urls) |-> Task(page_urls[i])]
                 /\ UNCHANGED output
    /\ UNCHANGED <<adapter, term, server, relVars, dedupeVars, page, urls, titles, seen, queue,
                 max_pages, max_results, completed, results, galleryVars>>
    /\ session_scope(1)
    /\ UNCHANGED authVars

\* _fetch_page: an exception and a status other than 200 both give ([], [])
step_notfans(t, resp) ==
    [t EXCEPT !.st = "ret", !.got = Append(@, resp),
              !.val = IF resp.kind = "exc" \/ resp.status # 200 THEN EmptyPage
                      ELSE items_notfans(resp.body)]

TaskStep_notfans(i) ==
    /\ adapter = "fetch_notfans" /\ pc = "gather"
    /\ tasks[i].st = "run"
    /\ \E resp \in Responses_notfans(FALSE) :
         /\ tasks' = [tasks EXCEPT ![i] = step_notfans(@, resp)]
         /\ completed' = Append(completed, i)
    /\ UNCHANGED <<adapter, pc, term, relVars, dedupeVars, pageVars, results, held, output, galleryVars>>
    /\ session_scope(1)
    /\ UNCHANGED authVars

\* for us, ts in await asyncio.gather(*tasks): urls.extend(us); titles.extend(ts)
GatherReturn_notfans ==
    /\ adapter = "fetch_notfans" /\ pc = "gather"
    /\ AllFinished
    /\ results' = gather_results(tasks, completed)
    /\ output' = [urls |-> held.urls \o extend_field(results', "urls"),
                  titles |-> held.titles \o extend_field(results', "titles")]
    /\ pc' = "done"
    /\ UNCHANGED <<adapter, term, relVars, dedupeVars, pageVars, tasks, completed, held, galleryVars>>
    /\ session_scope(1)
    /\ UNCHANGED authVars

-----------------------------------------------------------------------------
(* fetch_bunkr_gallery_images: the search, the albums one after the other,  *)
(* the file pages gathered, the surviving URLs validated                    *)

\* Python's None, which `if u` drops like the empty string
None == ""

\* a mutant of validate_url: any success status accepted
validate_url_any_success(url, resp) ==
    IF resp.kind = "ok" /\ resp.status \in {200, 206} THEN url ELSE None

\* validate_url: the URL on 206, None on any other status and on an exception
validate_url(url, resp) ==
    IF resp.kind = "ok" /\ resp.status = 206 THEN url ELSE None

\* the search page: the hrefs of its anchors; an album page: the hrefs of its
\* download anchors; a file page: the src of its img.object-cover ("": no tag)
BunkrSearchBody(hs) == [hrefs |-> hs]
BunkrAlbumBody(hs) == [downloads |-> hs]
BunkrFileBody(sr) == [img |-> sr]

IGNORED_LINKS ==
    {"https://bunkr-albums.io/", "https://bunkr-albums.io/topvideos",
     "https://bunkr-albums.io/topalbums", "https://bunkr-albums.io/topfiles",
     "https://bunkr-albums.io/topimages"}

SearchUrl_bunkr == "https://bunkr-albums.io/?search=jane&page=1"

Responses_bunkr_search ==
    {Ok(200, BunkrSearchBody(hs)) :
        hs \in {<<>>,
                <<"https://bunkr-albums.io/topalbums", "https://bunkr.cr/a/A1">>,
                <<"https://bunkr.cr/a/A1", "https://bunkr.si/a/A3", "https://bunkr.cr/a/A2">>}}
    \cup {Ok(404, BunkrSearchBody(<<"https://bunkr.cr/a/A1">>)), Exc}

\* the same path on the host an album was moved to
Moved(u) == "https://bunkr.si" \o SubSeq(u, Len(origin(u)) + 1, Len(u))

\* album A1 holds up to two files, any other album up to one; the GET follows
\* redirects, so the exchange may end on the host the album was moved to
Responses_bunkr_album(u) ==
    {OkAt(200, BunkrAlbumBody(hs), u) :
        hs \in IF u = "https://bunkr.cr/a/A1"
               THEN {<<>>, <<"/f/1">>, <<"/f/1", "https://bunkr.cr/f/2">>}
               ELSE {<<>>, <<"/f/3">>}}
    \cup {OkAt(200, BunkrAlbumBody(<<"/f/1">>), Moved(u)),
          OkAt(404, BunkrAlbumBody(<<"/f/1">>), u), Exc}

\* the file page of /f/<n> shows the image <n>.jpg of the CDN
Responses_bunkr_file(link) ==
    LET n == SubSeq(link, rfind_from(link, "/", Len(link)) + 1, Len(link))
    IN  {Ok(200, BunkrFileBody("https://cdn.bunkr.cr/" \o n \o ".jpg")),
         Ok(200, BunkrFileBody("")),
         Ok(404, BunkrFileBody("https://cdn.bunkr.cr/" \o n \o ".jpg")),
         Exc}

\* the answers to a HEAD and to a ranged GET of a media URL
Responses_head == {Ok(200, <<>>), Ok(404, <<>>), Exc}
Responses_ranged == {Ok(206, <<>>), Ok(200, <<>>), Ok(404, <<>>), Exc}

\* get_all_album_links_from_search: the links that match ^https://bunkr\.cr/a/.*
\* and are not in IGNORED_LINKS; [] on a status other than 200
albums_bunkr(resp) ==
    IF resp.status # 200 THEN <<>>
    ELSE SelectSeq(resp.body.hrefs,
                   LAMBDA h : startswith(h, "https://bunkr.cr/a/") /\ h \notin IGNORED_LINKS)

\* get_image_links_from_album
image_links_bunkr(resp) ==
    IF resp.status # 200 THEN <<>>
    ELSE [i \in 1..Len(resp.body.downloads) |->
            LET href == resp.body.downloads[i]
            IN  IF startswith(href, "/f/") THEN "https://bunkr.cr" \o href ELSE href]

Start_bunkr ==
    /\ adapter = "fetch_bunkr_gallery_images" /\ pc = "start"
    /\ \E resp \in Responses_bunkr_search :
         /\ requests' = Append(requests, SearchUrl_bunkr)
         /\ IF resp.kind = "exc"
            THEN pc' = "raised" /\ UNCHANGED held
            ELSE /\ pc' = "albums"
                 /\ held' = [albums |-> albums_bunkr(resp), links |-> <<>>]
    /\ UNCHANGED <<adapter, term, server, relVars, dedupeVars, pagerOnlyVars,
                   tasks, completed, results, output, galleryVars>>
    /\ session_scope(2)
    /\ UNCHANGED authVars

\* `for alb in albums`: the album pages are fetched one after the other, with
\* no handler around the GET
Album_bunkr ==
    /\ adapter = "fetch_bunkr_gallery_images" /\ pc = "albums"
    /\ held.albums # <<>>
    /\ LET album == Head(held.albums)
       IN  IF album \in IGNORED_LINKS
           THEN /\ held' = [held EXCEPT !.albums = Tail(@)]
                /\ UNCHANGED <<pc, requests, responses>>
           ELSE \E resp \in Responses_bunkr_album(album) :
                  /\ requests' = Append(requests, album)
                  /\ responses' = Append(responses, resp)
                  /\ IF resp.kind = "exc"
                     THEN pc' = "raised" /\ UNCHANGED held
                     ELSE /\ UNCHANGED pc
                          /\ held' = [albums |-> Tail(held.albums),
                                      links |-> held.links \o image_links_bunkr(resp)]
    /\ UNCHANGED <<adapter, term, server, relVars, dedupeVars, page, urls, titles, seen,
                   queue, max_pages, max_results, tasks, completed, results, output,
                   galleryVars>>
    /\ session_scope(2)
    /\ UNCHANGED authVars

\* tasks.append(get_image_url_from_link(link, session)) for every link, then
\* results = await asyncio.gather(*tasks)
Schedule_bunkr ==
    /\ adapter = "fetch_bunkr_gallery_images" /\ pc = "albums"
    /\ held.albums = <<>>
    /\ tasks' = [i \in 1..Len(held.links) |-> Task(held.links[i])]
    /\ pc' = "gather"
    /\ UNCHANGED <<adapter, term, relVars, dedupeVars, pageVars, completed, results, held, output, galleryVars>>
    /\ session_scope(2)
    /\ UNCHANGED authVars

\* a mutant of step_bunkr: a HEAD that raises lets the image URL through
step_bunkr_head_error_passes(t, resp) ==
    IF t.st = "run"
    THEN IF resp.kind = "exc" \/ resp.status # 200 \/ resp.body.img = ""
         THEN [t EXCEPT !.st = "ret", !.got = Append(@, resp), !.val = None]
         ELSE [t EXCEPT !.st = "head", !.got = Append(@, resp), !.val = resp.body.img]
    ELSE IF resp.kind = "ok" /\ resp.status # 200
         THEN [t EXCEPT !.st = "ret", !.got = Append(@, resp), !.val = None]
         ELSE [t EXCEPT !.st = "ret", !.got = Append(@, resp)]

\* get_image_url_from_link: the GET of the file page, then the HEAD of the
\* image; both inside try/except
step_bunkr(t, resp) ==
    IF t.st = "run"
    THEN IF resp.kind = "exc" \/ resp.status # 200 \/ resp.body.img = ""
         THEN [t EXCEPT !.st = "ret", !.got = Append(@, resp), !.val = None]
         ELSE [t EXCEPT !.st = "head", !.got = Append(@, resp), !.val = resp.body.img]
    ELSE IF resp.kind = "exc" \/ resp.status # 200
         THEN [t EXCEPT !.st = "ret", !.got = Append(@, resp), !.val = None]
         ELSE [t EXCEPT !.st = "ret", !.got = Append(@, resp)]

TaskStep_bunkr(i) ==
    /\ adapter = "fetch_bunkr_gallery_images" /\ pc = "gather"
    /\ tasks[i].st \in {"run", "head"}
    /\ \E resp \in IF tasks[i].st = "run" THEN Responses_bunkr_file(tasks[i].req)
                   ELSE Responses_head :
         /\ tasks' = [tasks EXCEPT ![i] = step_bunkr(@, resp)]
         /\ completed' = IF tasks'[i].st = "ret" THEN Append(completed, i) ELSE completed
    /\ UNCHANGED <<adapter, pc, term, relVars, dedupeVars, pageVars, results, held, output, galleryVars>>
    /\ session_scope(2)
    /\ UNCHANGED authVars

\* a mutant of AllReturned: a task still waiting for its HEAD counts as returned
AllPastFirstFetch == \A i \in 1..Len(tasks) : tasks[i].st # "run"

\* the gather returns when every awaitable has returned
AllReturned == \A i \in 1..Len(tasks) : tasks[i].st = "ret"

\* valid = [u for u in results if u], then the gather of validate_url over valid
GatherReturn_bunkr ==
    /\ adapter = "fetch_bunkr_gallery_images" /\ pc = "gather"
    /\ AllReturned
    /\ results' = gather_results(tasks, completed)
    /\ LET valid == SelectSeq(results', LAMBDA u : u # None)
       IN  /\ held' = valid
           /\ tasks' = [i \in 1..Len(valid) |-> Task(valid[i])]
    /\ completed' = <<>>
    /\ pc' = "validate"
    /\ UNCHANGED <<adapter, term, relVars, dedupeVars, pageVars, output, galleryVars>>
    /\ session_scope(2)
    /\ UNCHANGED authVars

TaskStep_validate(i) ==
    /\ adapter = "fetch_bunkr_gallery_images" /\ pc = "validate"
    /\ tasks[i].st = "run"
    /\ \E resp \in Responses_ranged :
         tasks' = [tasks EXCEPT ![i] =
                     [tasks[i] EXCEPT !.st = "ret", !.got = Append(@, resp),
                               !.val = validate_url(tasks[i].req, resp)]]
    /\ completed' = Append(completed, i)
    /\ UNCHANGED <<adapter, pc, term, relVars, dedupeVars, pageVars, results, held, output, galleryVars>>
    /\ session_scope(2)
    /\ UNCHANGED authVars

\* final_urls = list({u for u in validated if u})
GatherReturn_validate ==
    /\ adapter = "fetch_bunkr_gallery_images" /\ pc = "validate"
    /\ AllReturned
    /\ results' = gather_results(tasks, completed)
    /\ \E final_urls \in ListsOf({u \in ToSet(results') : u # None}) :
         output' = final_urls
    /\ pc' = "done"
    /\ UNCHANGED <<adapter, term, relVars, dedupeVars, pageVars, tasks, completed, held, galleryVars>>
    /\ session_scope(2)
    /\ UNCHANGED authVars

NextFan ==
    \/ Start_fullporner
    \/ \E i \in 1..Len(tasks) : TaskStep_fullporner(i)
    \/ GatherReturn_fullporner
    \/ Start_erome
    \/ \E i \in 1..Len(tasks) : TaskStep_erome(i)
    \/ GatherReturn_erome
    \/ Start_fapello
    \/ \E i \in 1..Len(tasks) : TaskStep_fapello(i)
    \/ GatherReturn_fapello
    \/ Start_notfans
    \/ \E i \in 1..Len(tasks) : TaskStep_notfans(i)
    \/ GatherReturn_notfans
    \/ Start_bunkr
    \/ Album_bunkr
    \/ Schedule_bunkr
    \/ \E i \in 1..Len(tasks) : TaskStep_bunkr(i)
    \/ GatherReturn_bunkr
    \/ \E i \in 1..Len(tasks) : TaskStep_validate(i)
    \/ GatherReturn_validate
    \/ GatherRaise

FanAdapters ==
    {"fetch_fullporner", "fetch_all_erome_media", "fetch_fapello_album_media", "fetch_notfans",
     "fetch_bunkr_gallery_images"}

InitFan == \E a \in FanAdapters : InitFanOf(a)

SpecFan == InitFan /\ [][NextFan]_vars

-----------------------------------------------------------------------------
(* The gallery endpoints: get_fapello_gallery, get_jpg5_gallery and         *)
(* get_erome_gallery take an album URL from the caller and hand it to the   *)
(* adapter. The run of the adapter is the run modelled above; Respond is    *)
(* the endpoint's return, or its handler turning an exception into HTTP 500 *)

GalleryEndpoints == {"get_fapello_gallery", "get_jpg5_gallery", "get_erome_gallery"}

\* what a caller may pass: a bare username, album URLs on each adapter's
\* host, and URLs on another host
AlbumUrlInputs ==
    {"jane", "https://fapello.com/jane/", "https://jpg5.su/a/jane/",
     "https://www.erome.com/a/A1", "https://evil.example/a/jane",
     "https://evil.example/fapello.com/jane/"}

\* str.rstrip("/")
RECURSIVE rstrip_slash(_)
rstrip_slash(s) ==
    IF s # "" /\ char_at(s, Len(s)) = "/" THEN rstrip_slash(SubSeq(s, 1, Len(s) - 1)) ELSE s

\* raise HTTPException(status_code=..., detail=...)
HTTPException(code) == [status_code |-> code]

\* get_erome_gallery is modelled for a query that starts with "http", the
\* branch that takes the query as the one album
InitGallery ==
    /\ endpoint \in GalleryEndpoints
    /\ album_url \in AlbumUrlInputs
    /\ endpoint = "get_erome_gallery" => startswith(album_url, "http")
    /\ adapter = endpoint
    /\ pc = "endpoint"
    /\ term = TermRun
    /\ server = "any"
    /\ RelIdle
    /\ DedupeIdle
    /\ page = 1 /\ urls = <<>> /\ titles = <<>> /\ seen = {} /\ queue = <<>>
    /\ max_pages = 0 /\ max_results = 0
    /\ requests = <<>> /\ responses = <<>>
    /\ FanIdle
    /\ sessions = NoSession
    /\ AuthIdle

\* a bare username becomes https://fapello.com/<username>; then the test
\* `"fapello.com" not in album_url` raises 400 or lets the call through
get_fapello_gallery ==
    /\ endpoint = "get_fapello_gallery" /\ pc = "endpoint"
    /\ LET full == IF startswith(album_url, "http") THEN album_url
                   ELSE "https://fapello.com/" \o album_url
       IN  /\ album_url' = full
           /\ IF ~contains("fapello.com", full)
              THEN /\ pc' = "responded"
                   /\ output' = HTTPException(400)
                   /\ UNCHANGED adapter
              ELSE /\ pc' = "start"
                   /\ adapter' = "fetch_fapello_album_media"
                   /\ UNCHANGED output
    /\ UNCHANGED <<endpoint, term, relVars, dedupeVars, pageVars, tasks, completed, results, held>>
    /\ UNCHANGED sessions
    /\ UNCHANGED authVars

\* no test of album_url: the adapter starts at album_url.rstrip("/")
get_jpg5_gallery ==
    /\ endpoint = "get_jpg5_gallery" /\ pc = "endpoint"
    /\ adapter' = "extract_jpg5_album_media_urls"
    /\ queue' = <<rstrip_slash(album_url)>>
    /\ pc' = "run"
    /\ UNCHANGED <<endpoint, album_url, term, server, page, urls, titles, seen, max_pages,
                   max_results, requests, responses, relVars, dedupeVars, fanVars>>
    /\ UNCHANGED sessions
    /\ UNCHANGED authVars

\* no test of query: albums = [query], and fetch_all_erome_media schedules
\* the two fetches of that album
get_erome_gallery ==
    /\ endpoint = "get_erome_gallery" /\ pc = "endpoint"
    /\ startswith(album_url, "http")
    /\ adapter' = "fetch_all_erome_media"
    /\ held' = <<album_url>>
    /\ tasks' = [i \in 1..2 |-> Task(album_url)]
    /\ pc' = "gather"
    /\ UNCHANGED <<endpoint, album_url, term, relVars, dedupeVars, pageVars, completed,
                   results, output>>
    /\ session_scope(1)
    /\ UNCHANGED authVars

\* the endpoint returns what the adapter returned; `except Exception` turns
\* whatever the adapter raised into HTTP 500
Respond ==
    /\ endpoint # "" /\ pc \in {"done", "raised"}
    /\ pc' = "responded"
    /\ output' = IF pc = "raised" THEN HTTPException(500)
                 ELSE IF endpoint = "get_jpg5_gallery" THEN [images |-> urls]
                 ELSE IF endpoint = "get_erome_gallery" THEN [images |-> output]
                 ELSE output
    /\ UNCHANGED <<adapter, endpoint, album_url, term, relVars, dedupeVars, pageVars, tasks,
                   completed, results, held>>
    /\ UNCHANGED sessions
    /\ UNCHANGED authVars

NextGallery ==
    \/ get_fapello_gallery
    \/ get_jpg5_gallery
    \/ get_erome_gallery
    \/ Start_fapello
    \/ \E i \in 1..Len(tasks) : TaskStep_fapello(i)
    \/ GatherReturn_fapello
    \/ \E i \in 1..Len(tasks) : TaskStep_erome(i)
    \/ GatherReturn_erome
    \/ GatherRaise
    \/ Step_jpg5
    \/ Respond

SpecGallery == InitGallery /\ [][NextGallery]_vars

-----------------------------------------------------------------------------
(* The invite codes and the registration: generate_invite_code and register *)
(* are handlers without an await, so each call runs to its end before the   *)
(* next one starts                                                          *)

MaxCalls == 4

InviteCodes == {"c1", "c2", "c3"}
Usernames == {"u1", "u2"}
Passwords == {"p1"}

\* d[k] = v of a dict loaded from JSON
put(d, k, v) == [x \in DOMAIN d \cup {k} |-> IF x = k THEN v ELSE d[x]]

\* get_password_hash(password)
get_password_hash(password) == [hash |-> password]

Call(op, args, code, detail) == [op |-> op, args |-> args, status |-> code, detail |-> detail]

\* a mutant of invite_used: the flag of the code is not read
invite_never_used(invs, code) == FALSE

\* `invites[data.invite_code] is True`
invite_used(invs, code) == invs[code] = TRUE

InitAuth ==
    /\ adapter = "api" /\ pc = "serving"
    /\ term = TermRun
    /\ RelIdle
    /\ DedupeIdle
    /\ PageIdle
    /\ FanIdle
    /\ GalleryIdle
    /\ sessions = NoSession
    /\ AuthIdle

\* secrets.token_urlsafe(8) gives 64 random bits: the code is taken to be one
\* that was never issued before
generate_invite_code ==
    /\ adapter = "api" /\ Len(calls) < MaxCalls
    /\ \E code \in InviteCodes \ DOMAIN invites :
         /\ invites' = put(invites, code, FALSE)
         /\ calls' = Append(calls, Call("generate_invite_code", [invite_code |-> code], 201, ""))
    /\ UNCHANGED <<adapter, pc, term, relVars, dedupeVars, pageVars, fanVars, galleryVars,
                   sessions, users>>

\* the invite is marked used and saved before the username is looked at
register ==
    /\ adapter = "api" /\ Len(calls) < MaxCalls
    /\ \E username \in Usernames, password \in Passwords, invite_code \in InviteCodes :
         LET data == [username |-> username, password |-> password, invite_code |-> invite_code]
         IN  IF invite_code \notin DOMAIN invites
             THEN /\ calls' = Append(calls, Call("register", data, 400, "Invalid invite code"))
                  /\ UNCHANGED <<invites, users>>
             ELSE IF invite_used(invites, invite_code)
             THEN /\ calls' = Append(calls, Call("register", data, 400, "Invite code already used"))
                  /\ UNCHANGED <<invites, users>>
             ELSE /\ invites' = put(invites, invite_code, TRUE)
                  /\ IF username \in DOMAIN users
                     THEN /\ calls' = Append(calls, Call("register", data, 400,
                                                         "Username already registered"))
                          /\ UNCHANGED users
                     ELSE /\ users' = put(users, username, get_password_hash(password))
                          /\ calls' = Append(calls, Call("register", data, 201, "Registered"))
    /\ UNCHANGED <<adapter, pc, term, relVars, dedupeVars, pageVars, fanVars, galleryVars,
                   sessions>>

NextAuth == generate_invite_code \/ register

SpecAuth == InitAuth /\ [][NextAuth]_vars

-----------------------------------------------------------------------------
(* fetch_all_album_pages: the erome search pages 1..max_pages, one after the *)
(* other, through get_webpage_content                                        *)

DefaultAlbumPages == 10

\* a search page: its text ("" for an empty body) and the hrefs of its
\* a.album-link anchors
AlbumSearchBody(text, hs) == [text |-> text, hrefs |-> hs]

AlbumSearchHrefs ==
    {<<>>, <<"/a/A3">>, <<"https://www.erome.com/a/A1">>,
     <<"https://www.erome.com/a/A1", "https://www.erome.com/a/A2">>,
     <<"https://www.erome.com/a/A2", "/a/A3", "https://www.erome.com/a/A2">>}

Responses_album_search ==
    {Ok(200, AlbumSearchBody("html", hs)) : hs \in AlbumSearchHrefs}
    \cup {Ok(200, AlbumSearchBody("", <<>>)),
          Ok(404, AlbumSearchBody("html", <<"https://www.erome.com/a/A1">>)),
          Exc}

\* extract_album_links: the set of the hrefs that start with
\* https://www.erome.com/a/
extract_album_links(body) ==
    {h \in ToSet(body.hrefs) : startswith(h, "https://www.erome.com/a/")}

InitAlbums ==
    /\ adapter = "fetch_all_album_pages"
    /\ server = "any"
    /\ pc = "run"
    /\ term = TermRun
    /\ RelIdle
    /\ DedupeIdle
    /\ page = 1 /\ urls = <<>> /\ titles = <<>> /\ seen = {} /\ queue = <<>>
    /\ max_pages \in {1, 2, DefaultAlbumPages}
    /\ max_results = 0
    /\ requests = <<>> /\ responses = <<>>
    /\ FanIdle
    /\ GalleryIdle
    /\ sessions = NoSession
    /\ AuthIdle

\* one iteration of `for page in range(1, max_pages + 1)`; seen is all_links,
\* and `return list(all_links)` when the loop ends
Step_album_pages ==
    /\ adapter = "fetch_all_album_pages" /\ pc = "run" /\ CanFetch
    /\ \E resp \in Responses_album_search :
         /\ Fetched("https://www.erome.com/search?q=a%20a&page=" \o ToString(page), resp)
         /\ IF resp.kind = "exc"
            THEN Raised
            ELSE IF resp.status # 200 \/ resp.body.text = ""
            THEN /\ pc' = "done"
                 /\ urls' \in ListsOf(seen)
                 /\ UNCHANGED <<page, titles, seen>>
            ELSE /\ seen' = seen \cup extract_album_links(resp.body)
                 /\ titles' = titles
                 /\ IF page = max_pages
                    THEN pc' = "done" /\ page' = page /\ urls' \in ListsOf(seen')
                    ELSE pc' = "run" /\ page' = page + 1 /\ urls' = urls
    /\ UNCHANGED <<adapter, term, server, queue, max_pages, max_results, relVars, dedupeVars,
                   fanVars, galleryVars>>
    /\ session_scope(1)
    /\ UNCHANGED authVars

NextAlbums == Step_album_pages

SpecAlbums == InitAlbums /\ [][NextAlbums]_vars

-----------------------------------------------------------------------------
(* fetch_porntn and fetch_xxbrits: the first page, then one page per offset *)
(* read from the data-parameters of its pagination anchors, in turn         *)

OffsetAdapters == {"fetch_porntn", "fetch_xxbrits"}

\* a page: its candidate anchors and the data-parameters of its pagination
\* anchors, in document order
OffsetBody(as, ps) == [anchors |-> as, params |-> ps]

OffsetAnchorLists(a) ==
    LET site == IF a = "fetch_porntn" THEN "https://porntn.com/"
                ELSE "https://www.xxbrits.com/"
    IN  {<<>>,
         <<Anchor(site \o "videos/1/", T_exact)>>,
         <<Anchor(site \o "videos/2/", T_other)>>,
         <<Anchor(site \o "models/1/", T_exact), Anchor(site \o "videos/2/", T_joined)>>}

OffsetParams ==
    {<<>>, <<"sort_by:post_date;from:2">>, <<"from:2", "from:3">>, <<"q:123;from:2">>,
     <<"from:x">>}

Responses_offsets(a, first) ==
    {Ok(200, OffsetBody(as, ps)) :
        as \in OffsetAnchorLists(a), ps \in IF first THEN OffsetParams ELSE {<<>>}}
    \cup {Ok(404, OffsetBody(<<Anchor("https://porntn.com/videos/1/", T_exact)>>,
                             IF first THEN <<"from:2">> ELSE <<>>)),
          Exc}

\* s.split(c)
RECURSIVE split_at(_, _)
split_at(s, c) ==
    LET k == find_from(s, c, 1)
    IN  IF k = 0 THEN <<s>>
        ELSE <<SubSeq(s, 1, k - 1)>> \o split_at(SubSeq(s, k + 1, Len(s)), c)

\* s.split(c, 1)[1]
after_first(s, c) == SubSeq(s, find_from(s, c, 1) + 1, Len(s))

\* str.isdigit()
isdigit(v) == v # "" /\ \A i \in 1..Len(v) : char_at(v, i) \in Digits

\* the parts of every data-parameters attribute, in document order
RECURSIVE parts_of(_)
parts_of(ps) == IF ps = <<>> THEN <<>> ELSE split_at(Head(ps), ";") \o parts_of(Tail(ps))

\* fetch_porntn: the digits of the parts that start with "from:"
offsets_porntn(ps) ==
    LET keep == SelectSeq(parts_of(ps),
                          LAMBDA part : startswith(part, "from:") /\ isdigit(after_first(part, ":")))
    IN  [i \in 1..Len(keep) |-> after_first(keep[i], ":")]

\* fetch_xxbrits: the digits after the ":" of any part
offsets_xxbrits(ps) ==
    LET keep == SelectSeq(parts_of(ps),
                          LAMBDA part : contains(":", part) /\ isdigit(after_first(part, ":")))
    IN  [i \in 1..Len(keep) |-> after_first(keep[i], ":")]

\* fetch_porntn keeps the anchors under https://porntn.com/videos with a
\* relevant title, fetch_xxbrits every a.item.link-post with a relevant title
accepted_offsets(a, as) ==
    SelectSeq(as, LAMBDA x : /\ a = "fetch_porntn" => startswith(x.href, "https://porntn.com/videos")
                             /\ relevant_normalize(term, x.title))

base_offsets(a) ==
    IF a = "fetch_porntn" THEN "https://porntn.com/search/a-a"
    ELSE "https://www.xxbrits.com/search/aa-23cd7b/"

page_url_offsets(a, off) ==
    IF a = "fetch_porntn" THEN base_offsets(a) \o "/?from=" \o off
    ELSE base_offsets(a) \o "?from=" \o off

InitOffsets ==
    /\ adapter \in OffsetAdapters
    /\ server = "any"
    /\ pc = "first"
    /\ term = TermRun
    /\ RelIdle
    /\ DedupeIdle
    /\ page = 1 /\ urls = <<>> /\ titles = <<>> /\ seen = {} /\ queue = <<>>
    /\ max_pages = 0 /\ max_results = 0
    /\ requests = <<>> /\ responses = <<>>
    /\ FanIdle
    /\ GalleryIdle
    /\ sessions = NoSession
    /\ AuthIdle

\* the GET of the first page; its status is not read, and the queue takes the
\* offsets
First_offsets ==
    /\ adapter \in OffsetAdapters /\ pc = "first"
    /\ \E resp \in Responses_offsets(adapter, TRUE) :
         /\ Fetched(base_offsets(adapter), resp)
         /\ IF resp.kind = "exc"
            THEN Raised /\ UNCHANGED queue
            ELSE LET acc == accepted_offsets(adapter, resp.body.anchors)
                     offsets == IF adapter = "fetch_porntn"
                                THEN offsets_porntn(resp.body.params)
                                ELSE offsets_xxbrits(resp.body.params)
                 IN  /\ urls' = hrefs_of(acc)
                     /\ titles' = stripped_titles_of(acc)
                     /\ queue' = offsets
                     /\ pc' = IF offsets = <<>> THEN "done" ELSE "offsets"
                     /\ UNCHANGED <<page, seen>>
    /\ UNCHANGED <<adapter, term, server, max_pages, max_results, relVars, dedupeVars,
                   fanVars, galleryVars>>
    /\ session_scope(1)
    /\ UNCHANGED authVars

\* one iteration of `for off in offsets`: `if found == 0: break`
Step_offsets ==
    /\ adapter \in OffsetAdapters /\ pc = "offsets"
    /\ \E resp \in Responses_offsets(adapter, FALSE) :
         /\ Fetched(page_url_offsets(adapter, Head(queue)), resp)
         /\ IF resp.kind = "exc"
            THEN Raised /\ UNCHANGED queue
            ELSE LET acc == accepted_offsets(adapter, resp.body.anchors)
                 IN  /\ urls' = urls \o hrefs_of(acc)
                     /\ titles' = titles \o stripped_titles_of(acc)
                     /\ queue' = Tail(queue)
                     /\ pc' = IF Len(acc) = 0 \/ Tail(queue) = <<>> THEN "done" ELSE "offsets"
                     /\ page' = page + 1
                     /\ UNCHANGED seen
    /\ UNCHANGED <<adapter, term, server, max_pages, max_results, relVars, dedupeVars,
                   fanVars, galleryVars>>
    /\ session_scope(1)
    /\ UNCHANGED authVars

NextOffsets == First_offsets \/ Step_offsets

SpecOffsets == InitOffsets /\ [][NextOffsets]_vars

-----------------------------------------------------------------------------
(* Spec: the sequential pagers and the fan-outs together *)

InitAll == InitPage \/ InitFan

NextAll == NextPage \/ NextFan

Spec == InitAll /\ [][NextAll]_vars

-----------------------------------------------------------------------------
(* The claim's normalize: lower-case every character, drop the whitespace *)

NotSpace(c) == ~isspace(c)
LowerNoSpace(s) == SelectSeq(lower(s), NotSpace)

\* C1: the relevance test built on _normalize accepts a candidate exactly
\* when the lower-cased, whitespace-free term is a contiguous substring of the
\* lower-cased, whitespace-free title.
C1_NormalizeRelevance ==
    (pc = "done" /\ adapter = "_normalize") =>
        (verdict <=> contains(LowerNoSpace(term), LowerNoSpace(title)))

\* a term and a title that differ from their normal forms in case and in
\* whitespace, accepted by the test
C1_Witness ==
    /\ pc = "done" /\ adapter = "_normalize"
    /\ term = <<"A", " ">>
    /\ title = <<"\t", "a", "-">>
    /\ verdict

\* C2 (as claimed): fetch_notfans, fetch_fullporner_page and scrape_hqporner
\* accept a pair exactly when the lower-cased, whitespace-free term is a
\* substring of the lower-cased, whitespace-free title.
C2_SamePredicateEverywhere ==
    (pc = "done" /\ adapter \in {"fetch_notfans", "fetch_fullporner_page", "scrape_hqporner"}) =>
        (verdict <=> contains(LowerNoSpace(term), LowerNoSpace(title)))

\* the URL of a media item, as the result's consumer reads it
MediaUrl(item) == IF item.kind = "dict" THEN item.url ELSE item.value

\* C9: the deduplication step of fetch_all_erome_media returns its own output
\* unchanged when applied to it, and its output holds no two items with the
\* same URL.
C9_DedupeIdempotent ==
    /\ pc = "done" => again = unique_media
    /\ pc \in {"deduped", "done"} =>
          \A i, j \in 1..Len(unique_media) :
              MediaUrl(unique_media[i]) = MediaUrl(unique_media[j]) => i = j

\* an input with a repeated URL under different payloads went through the step
\* twice
C9_Witness ==
    /\ pc = "done"
    /\ Len(items) = 3
    /\ Len(unique_media) = 1
    /\ items[1] # items[2] /\ items[2] # items[3] /\ items[1] # items[3]

-----------------------------------------------------------------------------
(* Claims about the pagers *)

\* C5 (as claimed): every pagination loop is bounded by a hard page cap; 50
\* is the largest cap the design recommends.
C5_HardPageCap == Len(requests) <= 50

ProbeAdapters == {"fetch_nsfw247", "fetch_hornysimp", "fetch_bitchesgirls"}

\* the candidates of a page (the anchors that pass the adapter's href test)
\* and the relevant ones among them
IsCandidate(a, anchor) ==
    CASE a = "fetch_nsfw247" -> startswith(anchor.href, "https://nsfw247.to/")
      [] a = "fetch_hornysimp" -> contains("hornysimp.com", anchor.href)
      [] a = "fetch_bitchesgirls" -> startswith(anchor.href, "/onlyfans/")
      [] OTHER -> TRUE

IsRelevantCandidate(a, anchor) ==
    IsCandidate(a, anchor) /\ contains(LowerNoSpace(term), LowerNoSpace(anchor.title))

NoRelevantCandidate(a, resp) ==
    /\ resp.kind = "ok"
    /\ \A k \in 1..Len(resp.body.anchors) : ~IsRelevantCandidate(a, resp.body.anchors[k])

\* C6: in fetch_nsfw247, fetch_hornysimp and fetch_bitchesgirls the first
\* fetched page without a relevant candidate is the last page fetched, and the
\* run has returned right after it.
C6_StopAtFirstIrrelevantPage ==
    adapter \in ProbeAdapters =>
        \A i \in 1..Len(responses) :
            NoRelevantCandidate(adapter, responses[i]) =>
                i = Len(responses) /\ pc = "done"

\* a first page holding candidates, none of them relevant, ended the run after
\* one fetch
C6_Witness ==
    /\ adapter \in ProbeAdapters
    /\ pc = "done"
    /\ Len(requests) = 1
    /\ Len(responses[1].body.anchors) >= 1
    /\ \E k \in 1..Len(responses[1].body.anchors) :
           IsCandidate(adapter, responses[1].body.anchors[k])

NoUrlTwice(us) == \A i, j \in 1..Len(us) : us[i] = us[j] => i = j

\* C7 (as claimed): the URL list an adapter returns never holds a URL twice.
C7_ResultDeduplicated ==
    (pc = "done" /\ adapter \in {"fetch_pornxp", "fetch_influencers"}) => NoUrlTwice(urls)


-----------------------------------------------------------------------------
(* Claims about the deduplication inside the crawls *)

\* the elements of st at the indices that hold the first occurrence of their key
RECURSIVE FirstOccFrom(_, _, _)
FirstOccFrom(st, keys, i) ==
    IF i > Len(st) THEN <<>>
    ELSE IF \E j \in 1..(i - 1) : keys[j] = keys[i]
         THEN FirstOccFrom(st, keys, i + 1)
         ELSE <<st[i]>> \o FirstOccFrom(st, keys, i + 1)

FirstOcc(st, keys) == FirstOccFrom(st, keys, 1)

Prefix(st, n) == SubSeq(st, 1, IF Len(st) < n THEN Len(st) ELSE n)

HqCandidate(a, anchor) ==
    IF a = "scrape_hqporner" THEN startswith(anchor.href, "/hdporn/") ELSE TRUE

RECURSIVE CrawlStream(_, _)
CrawlStream(a, rs) ==
    IF rs = <<>> THEN <<>>
    ELSE (IF Head(rs).kind = "ok"
          THEN SelectSeq(Head(rs).body.anchors,
                         LAMBDA x : /\ HqCandidate(a, x)
                                    /\ a = "scrape_hqporner" =>
                                         contains(LowerNoSpace(term), LowerNoSpace(x.title)))
          ELSE <<>>)
         \o CrawlStream(a, Tail(rs))

SiteSaidSorry == responses # <<>> /\ responses[1].kind = "ok" /\ responses[1].body.sorry

\* C8: where a crawl deduplicates, what it holds is the first occurrence of
\* every URL of its candidate stream, in the order of the stream: in
\* scrape_hqporner (up to max_results, and unless page one says nothing was
\* found), in fetch_thothub, and in the media list of fetch_all_erome_media.
C8_FirstOccurrenceKept ==
    /\ (adapter = "scrape_hqporner" /\ ~SiteSaidSorry) =>
          LET st == CrawlStream(adapter, responses)
              us == [i \in 1..Len(st) |-> "https://hqporner.com" \o st[i].href]
              ts == [i \in 1..Len(st) |-> strip(st[i].title)]
          IN  /\ urls = Prefix(FirstOcc(us, us), max_results)
              /\ titles = Prefix(FirstOcc(ts, us), max_results)
    /\ adapter = "fetch_thothub" =>
          LET st == CrawlStream(adapter, responses)
              hs == [i \in 1..Len(st) |-> st[i].href]
              ts == [i \in 1..Len(st) |-> st[i].title]
          IN  urls = FirstOcc(hs, hs) /\ titles = FirstOcc(ts, hs)
    /\ (adapter = "fetch_all_erome_media" /\ pc = "done") =>
          unique_media = FirstOcc(items, [i \in 1..Len(items) |-> MediaUrl(items[i])])

\* scrape_hqporner ended below max_results after the site had sent one
\* relevant URL under two different titles
C8_Witness ==
    /\ adapter = "scrape_hqporner" /\ pc = "done" /\ ~SiteSaidSorry
    /\ Len(urls) >= 1 /\ Len(urls) < max_results
    /\ LET st == CrawlStream(adapter, responses)
       IN  \E i, j \in 1..Len(st) :
              i < j /\ st[i].href = st[j].href /\ st[i].title # st[j].title

-----------------------------------------------------------------------------
(* Claims about the fan-outs *)

RECURSIVE ConcatVals(_, _)
ConcatVals(ts, k) == IF k = 0 THEN <<>> ELSE ConcatVals(ts, k - 1) \o ts[k].val

FailedFetch(resp) == resp.kind = "exc" \/ resp.status # 200

\* C3: a gather over N awaitables returns N results, result i being that of
\* awaitable i whatever the order of completion; fetch_fullporner asks for
\* page i + 1 in task i and returns the pages' hits in page order;
\* fetch_fapello_album_media holds the empty media at the index of a page
\* whose fetch failed.
C3_ResultsInInputOrder ==
    (pc = "done" /\ adapter \in FanAdapters) =>
        /\ IF adapter = "fetch_all_erome_media"
           THEN /\ Len(results) = Len(held)
                /\ \A k \in 1..Len(results) :
                       results[k] = <<tasks[2 * k - 1].val, tasks[2 * k].val>>
           ELSE /\ Len(results) = Len(tasks)
                /\ \A i \in 1..Len(tasks) : results[i] = tasks[i].val
        /\ adapter = "fetch_fullporner" =>
              /\ \A i \in 1..Len(tasks) : tasks[i].req = url_fullporner(i + 1)
              /\ \E k \in 0..Len(tasks) : output = unzip(held \o ConcatVals(tasks, k))
        /\ adapter = "fetch_fapello_album_media" =>
              \A i \in 1..Len(tasks) : FailedFetch(tasks[i].got[1]) => results[i] = EmptyMedia

\* fetch_fullporner: page 3 answered before page 2, with different hits
C3_Witness ==
    /\ adapter = "fetch_fullporner" /\ pc = "done"
    /\ Len(tasks) = 2 /\ completed = <<2, 1>>
    /\ results[1] # <<>> /\ results[2] # <<>> /\ results[1] # results[2]
    /\ Len(output.urls) = Len(held) + Len(results[1]) + Len(results[2])

\* C4 (as claimed): in fetch_fullporner, fetch_all_erome_media and fetch_notfans
\* the failure of one fetch of the fan-out does not end the run, and every
\* item a sibling fetch returned is in the answer.
C4_FailureSparesSiblings ==
    adapter \in {"fetch_fullporner", "fetch_all_erome_media", "fetch_notfans"} =>
        /\ ~(pc = "raised" /\ SomeRaised)
        /\ (pc = "done" /\ adapter = "fetch_fullporner") =>
              \A i \in 1..Len(tasks) : \A k \in 1..Len(tasks[i].val) :
                  tasks[i].val[k].url \in ToSet(output.urls)
        /\ (pc = "done" /\ adapter = "fetch_all_erome_media") =>
              \A i \in 1..Len(tasks) : \A k \in 1..Len(tasks[i].val) :
                  \E j \in 1..Len(output) : MediaUrl(output[j]) = MediaUrl(tasks[i].val[k])
        /\ (pc = "done" /\ adapter = "fetch_notfans") =>
              \A i \in 1..Len(tasks) : ToSet(tasks[i].val.urls) \subseteq ToSet(output.urls)

-----------------------------------------------------------------------------
(* Claims about the validator *)

Got206(t) == t.got # <<>> /\ t.got[1].kind = "ok" /\ t.got[1].status = 206

\* C10: validate_url returns its URL exactly when the ranged GET answered 206
\* and None otherwise, no exception leaves it, and the answer of
\* fetch_bunkr_gallery_images holds exactly the URLs that answered 206.
C10_ValidateUrl ==
    (adapter = "fetch_bunkr_gallery_images" /\ pc \in {"validate", "done"}) =>
        /\ \A i \in 1..Len(tasks) :
              /\ tasks[i].st \in {"run", "ret"}
              /\ tasks[i].st = "ret" =>
                    tasks[i].val = IF Got206(tasks[i]) THEN tasks[i].req ELSE None
        /\ pc = "done" =>
              /\ ToSet(output) = {tasks[i].req : i \in {j \in 1..Len(tasks) : Got206(tasks[j])}}
              /\ NoUrlTwice(output)

\* three URLs reached the validator; the first answered 206, the second 404,
\* the third failed in the transport: the answer is the first alone
C10_Witness ==
    /\ adapter = "fetch_bunkr_gallery_images" /\ pc = "done"
    /\ Len(tasks) = 3
    /\ tasks[1].got = <<Ok(206, <<>>)>>
    /\ tasks[2].got = <<Ok(404, <<>>)>>
    /\ tasks[3].got = <<Exc>>
    /\ output = <<tasks[1].req>>

-----------------------------------------------------------------------------
(* Claims about failures of the transport and statuses outside 2xx *)

\* C11 (as claimed): get_webpage_content never raises: every exchange of
\* fetch_image_urls and fetch_video_urls, whatever the transport did, ends
\* with the function returning to its caller.
C11_FetcherNeverRaises ==
    adapter = "fetch_all_erome_media" =>
        \A i \in 1..Len(tasks) : tasks[i].got # <<>> => tasks[i].st = "ret"

NonSuccess(resp) == resp.kind = "ok" /\ (resp.status < 200 \/ resp.status > 299)

\* C12 (as claimed): a page answered with a status outside 2xx contributes no
\* candidate, whatever its body holds: a crawl of fetch_influencers or
\* scrape_hqporner that received only such pages holds no URL, and a page task
\* of fetch_fullporner that received one returns no video.
C12_NonSuccessPageGivesNothing ==
    /\ (adapter \in {"fetch_influencers", "scrape_hqporner"}
        /\ \A i \in 1..Len(responses) : NonSuccess(responses[i])) => urls = <<>>
    /\ adapter = "fetch_fullporner" =>
          \A i \in 1..Len(tasks) :
              (tasks[i].got # <<>> /\ NonSuccess(tasks[i].got[1])) => tasks[i].val = <<>>

\* the URLs of the GET requests of a fan-out run: the sequential ones, then
\* those of the tasks that have had their exchange
IssuedUrls ==
    LET started == SelectSeq(tasks, LAMBDA t : t.got # <<>>)
    IN  requests \o [i \in 1..Len(started) |-> started[i].req]

\* C13 (as claimed): a run of fetch_all_erome_media or of
\* fetch_fapello_album_media requests no URL more than once.
C13_NoUrlRequestedTwice ==
    adapter \in {"fetch_all_erome_media", "fetch_fapello_album_media"} =>
        NoUrlTwice(IssuedUrls)

\* C19 (as claimed): every link fetch_thothub keeps in its seen set or returns
\* is an absolute URL.
C19_LinksAbsolute ==
    adapter = "fetch_thothub" =>
        /\ \A i \in 1..Len(urls) : startswith(urls[i], "http")
        /\ \A h \in seen : startswith(h, "http")

\* C14 (as claimed): a fetch of extract_jpg5_album_media_urls that fails in
\* the transport (the 60 s timeout) does not end the run with an exception.
C14_TimeoutNotFatal ==
    adapter = "extract_jpg5_album_media_urls" => pc # "raised"

-----------------------------------------------------------------------------
(* Claims about the token-chain pagers *)

TokenChainAdapters ==
    {"fetch_thotslife", "extract_jpg5_album_media_urls", "fetch_gotanynudes", "scrape_hqporner"}

\* the URLs of the items a page offers to the adapter
PageItems(a, resp) ==
    LET as == resp.body.anchors
    IN  CASE a = "fetch_gotanynudes" ->
               {as[k].href : k \in {n \in 1..Len(as) :
                   contains(LowerNoSpace(term), LowerNoSpace(as[n].title))}}
          [] a = "scrape_hqporner" ->
               {"https://hqporner.com" \o as[k].href : k \in {n \in 1..Len(as) :
                   /\ startswith(as[n].href, "/hdporn/")
                   /\ contains(LowerNoSpace(term), LowerNoSpace(as[n].title))}}
          [] a = "extract_jpg5_album_media_urls" ->
               {as[k].href : k \in {n \in 1..Len(as) : contains("jpg5.su", as[n].href)}}
          [] OTHER -> {as[k].href : k \in 1..Len(as)}

NoContinuation(resp) == resp.kind = "ok" /\ resp.status = 200 /\ resp.body.next = ""

\* a page without continuation signal is the last one fetched, the run does
\* not fail, and what it returns (short of max_results) holds the page's items
StopsAndKeeps(i) ==
    /\ i = Len(responses)
    /\ pc \in {"run", "done"}
    /\ (pc = "done" /\ (adapter = "scrape_hqporner" => Len(urls) < max_results)) =>
          PageItems(adapter, responses[i]) \subseteq ToSet(urls)

\* C18 (as claimed): in fetch_thotslife, extract_jpg5_album_media_urls,
\* fetch_gotanynudes and scrape_hqporner a fetched page without continuation
\* signal is the last page fetched, and the run returns the items collected so
\* far, those of that page included.
C18_StopWithoutContinuation ==
    adapter \in TokenChainAdapters =>
        \A i \in 1..Len(responses) : NoContinuation(responses[i]) => StopsAndKeeps(i)

\* C18 (amended): the same, except that scrape_hqporner returns nothing when
\* its first page carries the "Sorry, I can't find ..." text, whatever items
\* that page holds.
C18_StopWithoutContinuationAmended ==
    adapter \in TokenChainAdapters =>
        IF adapter = "scrape_hqporner" /\ SiteSaidSorry
        THEN Len(responses) = 1 /\ pc = "done" /\ urls = <<>>
        ELSE \A i \in 1..Len(responses) : NoContinuation(responses[i]) => StopsAndKeeps(i)

\* fetch_thotslife returned after a second page that carried no load-more link
\* and an item the first page did not have
C18_Witness ==
    /\ adapter = "fetch_thotslife" /\ pc = "done"
    /\ Len(responses) = 2
    /\ NoContinuation(responses[2])
    /\ PageItems(adapter, responses[2]) \ PageItems(adapter, responses[1]) # {}

\* the host each gallery endpoint's adapter scrapes
AdapterOrigin ==
    [get_fapello_gallery |-> "https://fapello.com",
     get_jpg5_gallery    |-> "https://jpg5.su",
     get_erome_gallery   |-> "https://www.erome.com"]

ForeignAlbumUrl ==
    /\ endpoint \in GalleryEndpoints
    /\ startswith(album_url, "http")
    /\ origin(album_url) # AdapterOrigin[endpoint]

\* C15: a gallery request whose album URL is on another host than the
\* adapter's is answered with the invalid-input error (HTTP 400) and no
\* request is ever sent for it
C15_ForeignHostRejected ==
    ForeignAlbumUrl =>
        /\ IssuedUrls = <<>>
        /\ pc = "responded" => output = HTTPException(400)

-----------------------------------------------------------------------------
\* the stages of fetch_bunkr_gallery_images: the search and the album pages
\* (enumeration), the file pages (detail), the ranged GETs (validation)
StageOf(p) ==
    CASE p = "start"    -> 0
      [] p = "albums"   -> 1
      [] p = "gather"   -> 2
      [] p = "validate" -> 3
      [] OTHER          -> 4

\* task i has an exchange in this step
Exchanged(i) == Len(tasks'[i].got) > Len(tasks[i].got)

C16_Step ==
    adapter = "fetch_bunkr_gallery_images" =>
        \* no stage is entered again
        /\ StageOf(pc') >= StageOf(pc)
        \* album enumeration: the search and album requests are sent in the
        \* first stages only
        /\ requests' # requests => pc \in {"start", "albums"}
        \* a file page is fetched only when no album is left to enumerate
        /\ (pc = "gather" /\ pc' = "gather") =>
               /\ held.albums = <<>>
               /\ \E i \in 1..Len(tasks) : Exchanged(i)
        \* validation starts only when every detail fetch has returned
        /\ (pc = "gather" /\ pc' = "validate") =>
               \A i \in 1..Len(tasks) : tasks[i].st = "ret"
        \* a validation fetch is for a URL the detail stage produced
        /\ (pc = "validate" /\ pc' = "validate") =>
               \A i \in 1..Len(tasks) : Exchanged(i) => tasks[i].req \in ToSet(held)

\* C16: in fetch_bunkr_gallery_images the stages album enumeration, detail
\* page fetch and validation follow each other strictly: no detail fetch
\* before every album is enumerated, no validation before every detail fetch
\* has completed, and no fetch of an earlier stage once a later one began.
C16_StagesOrdered == [][C16_Step]_vars

\* a run that went through the three stages with two detail fetches, one of
\* them ending without a URL, and has validated the other
C16_Witness ==
    /\ adapter = "fetch_bunkr_gallery_images" /\ pc = "validate"
    /\ Len(requests) = 2
    /\ Len(results) = 2 /\ results[1] = None /\ results[2] # None
    /\ Len(tasks) = 1 /\ tasks[1].st = "ret"

-----------------------------------------------------------------------------
ConcurrentAdapters == {"fetch_notfans", "fetch_fapello_album_media", "fetch_all_erome_media"}

\* field f of the values of the first k tasks, end to end in task order
RECURSIVE ConcatField(_, _, _)
ConcatField(ts, f, k) == IF k = 0 THEN <<>> ELSE ConcatField(ts, f, k - 1) \o ts[k].val[f]

\* the merge each adapter owes its caller, from what it held before the
\* fan-out and the tasks' values in task order
MergedAnswer(out) ==
    CASE adapter = "fetch_notfans" ->
           out = [urls   |-> held.urls \o ConcatField(tasks, "urls", Len(tasks)),
                  titles |-> held.titles \o ConcatField(tasks, "titles", Len(tasks))]
      [] adapter = "fetch_fapello_album_media" ->
           /\ NoUrlTwice(out.images) /\ NoUrlTwice(out.videos)
           /\ ToSet(out.images) = ToSet(ConcatField(tasks, "images", Len(tasks)))
           /\ ToSet(out.videos) = ToSet(ConcatField(tasks, "videos", Len(tasks)))
      [] adapter = "fetch_all_erome_media" ->
           LET all == ConcatVals(tasks, Len(tasks))
           IN  out = FirstOcc(all, [k \in 1..Len(all) |-> MediaUrl(all[k])])

C17_Step ==
    (adapter \in ConcurrentAdapters /\ pc = "gather") =>
        \* a step of the fan-out is one exchange of one fetch: it writes that
        \* fetch's own entry and nothing the other fetches or the merge read
        /\ pc' = "gather" =>
              /\ Len(tasks') = Len(tasks)
              /\ \E i \in 1..Len(tasks) :
                    /\ Exchanged(i)
                    /\ tasks'[i].req = tasks[i].req
                    /\ \A j \in 1..Len(tasks) : j # i => tasks'[j] = tasks[j]
              /\ UNCHANGED <<held, results, output, items, unique_media>>
        \* the merge happens once, when no fetch is still running, and its
        \* result is fixed by the fetches' values in task order
        /\ pc' = "done" =>
              /\ \A i \in 1..Len(tasks) : tasks[i].st # "run"
              /\ tasks' = tasks
              /\ MergedAnswer(output')
        /\ pc' = "raised" => UNCHANGED <<tasks, held, results, output, items, unique_media>>

\* C17: in the concurrent adapters (fetch_notfans, fetch_fapello_album_media,
\* fetch_all_erome_media) a fetch of the fan-out writes no state another
\* fetch reads, merging and deduplication happen only after the whole
\* fan-out has completed, and the answer is the same whatever the order in
\* which the fetches finished.
C17_NoSharedState == [][C17_Step]_vars

\* fetch_notfans: the second AJAX page answered before the first, both with
\* hits, and the answer holds page one's hits, then the first's, then the
\* second's
C17_Witness ==
    /\ adapter = "fetch_notfans" /\ pc = "done"
    /\ Len(tasks) = 2 /\ completed = <<2, 1>>
    /\ held.urls # <<>>
    /\ tasks[1].val.urls # <<>> /\ tasks[2].val.urls # <<>>
    /\ tasks[1].val.urls # tasks[2].val.urls
    /\ output.urls = held.urls \o tasks[1].val.urls \o tasks[2].val.urls

-----------------------------------------------------------------------------
\* the host-relative download hrefs of an album page
HostRelative(href) == startswith(href, "/f/")

\* C20 (as claimed): get_image_links_from_album resolves a host-relative
\* download href against the final URL of the album page: '/f/abc' found on a
\* page whose final URL is https://H/a/123 is collected as https://H/f/abc,
\* whatever host H the fetch of the album ended on.
C20_ResolvedAgainstFinalUrl ==
    (adapter = "fetch_bunkr_gallery_images" /\ pc = "albums") =>
        \A k \in 1..Len(responses) :
            (responses[k].kind = "ok" /\ responses[k].status = 200) =>
                \A n \in 1..Len(responses[k].body.downloads) :
                    HostRelative(responses[k].body.downloads[n]) =>
                        origin(responses[k].url) \o responses[k].body.downloads[n]
                            \in ToSet(held.links)

-----------------------------------------------------------------------------
(* Claims about the assets of an erome album page *)

\* the <video> elements of a page that hold an MP4 <source>
WithSource(vs) == SelectSeq(vs, LAMBDA v : v.src # "")

\* ref as an absolute URL of the page that ended on final
IsAbsolute(u) == startswith(u, "http://") \/ startswith(u, "https://")
Absolute(final, ref) == IF IsAbsolute(ref) THEN ref ELSE urljoin(final, ref)

\* the answer of a fetch_video_urls task is that of its one exchange
VideoAssetsRight(t) ==
    LET resp == t.got[1]
        tags == WithSource(resp.body.videos)
    IN  /\ Len(t.val) = Len(tags)
        /\ \A k \in 1..Len(tags) :
              /\ t.val[k].kind = "dict"
              /\ ~contains("?", t.val[k].url)
              /\ IsAbsolute(t.val[k].url)
              /\ t.val[k].url = Absolute(resp.url, before_first(tags[k].src, "?"))
              /\ t.val[k].thumbnail = IF tags[k].poster = "" THEN VIDEO_THUMB
                                      ELSE Absolute(resp.url, tags[k].poster)

\* C21: fetch_video_urls gives one asset per <video> element with an MP4
\* <source>, in document order: its url is the src cut at the first '?' and
\* made absolute against the page's final URL, its thumbnail the absolute
\* poster URL, or VIDEO_THUMB when the element has no poster; an element
\* without an MP4 source gives no asset.
C21_VideoAssets ==
    adapter = "fetch_all_erome_media" =>
        \A i \in 1..Len(tasks) :
            (i % 2 = 0 /\ tasks[i].st = "ret") => VideoAssetsRight(tasks[i])

\* a page with a sourceless <video>, a posterless one, and one with a
\* host-relative poster and a src that holds two '?'
C21_Witness ==
    /\ adapter = "fetch_all_erome_media"
    /\ Len(tasks) >= 2 /\ tasks[2].st = "ret"
    /\ Len(tasks[2].got[1].body.videos) = 3
    /\ Len(tasks[2].val) = 2
    /\ tasks[2].val[1].thumbnail = VIDEO_THUMB
    /\ tasks[2].val[2] = VideoItem("https://www.erome.com/v/3.mp4",
                                   "https://www.erome.com/p/3.jpg")

\* the marker of a thumb-sized variant
IsThumb(u) == contains("/thumb/", u)

\* C22 (as claimed): no URL that holds '/thumb/' is among the images
\* fetch_image_urls returns, nor among those fetch_fapello_page_media and
\* fetch_fapello_album_media return.
C22_NoThumbAsset ==
    /\ adapter = "fetch_all_erome_media" =>
          \A i \in 1..Len(tasks) : (i % 2 = 1 /\ tasks[i].st = "ret") =>
              \A k \in 1..Len(tasks[i].val) : ~IsThumb(tasks[i].val[k].value)
    /\ adapter = "fetch_fapello_album_media" =>
          /\ \A i \in 1..Len(tasks) : tasks[i].st = "ret" =>
                \A k \in 1..Len(tasks[i].val.images) : ~IsThumb(tasks[i].val.images[k])
          /\ (pc = "done" /\ tasks # <<>>) =>
                \A k \in 1..Len(output.images) : ~IsThumb(output.images[k])

-----------------------------------------------------------------------------
(* Claims about the detail fetch of fetch_bunkr_gallery_images *)

Answered200(resp) == resp.kind = "ok" /\ resp.status = 200

\* the exchanges of a detail task that let its image URL through
ProbedAlive(t) ==
    /\ Len(t.got) = 2
    /\ Answered200(t.got[1]) /\ t.got[1].body.img # ""
    /\ Answered200(t.got[2])

\* C23: get_image_url_from_link never raises; a HEAD probe that raises gives
\* None like a probe answered with a status other than 200, and the image
\* URL is returned exactly when the file page answered 200, an image element
\* was found and the HEAD probe answered 200.
C23_HeadProbeTolerant ==
    (adapter = "fetch_bunkr_gallery_images" /\ pc = "gather") =>
        \A i \in 1..Len(tasks) :
            /\ tasks[i].st # "raise"
            /\ tasks[i].st = "ret" =>
                  IF ProbedAlive(tasks[i])
                  THEN tasks[i].val = tasks[i].got[1].body.img
                  ELSE tasks[i].val = None

\* three file pages with an image each: the HEAD of the first raised, that
\* of the second answered 404, that of the third 200
C23_Witness ==
    /\ adapter = "fetch_bunkr_gallery_images" /\ pc = "gather"
    /\ Len(tasks) = 3
    /\ \A i \in 1..3 : tasks[i].st = "ret" /\ Len(tasks[i].got) = 2
    /\ tasks[1].got[2] = Exc /\ tasks[1].val = None
    /\ tasks[2].got[2] = Ok(404, <<>>) /\ tasks[2].val = None
    /\ tasks[3].got[2] = Ok(200, <<>>) /\ tasks[3].val # None

-----------------------------------------------------------------------------
\* C24 (as claimed): a run of fetch_pornxp or of fetch_bunkr_gallery_images
\* opens exactly one ClientSession, never has two open at once, and has
\* closed every session it opened when it returns or raises.
C24_OneSessionPerRun ==
    adapter \in {"fetch_pornxp", "fetch_bunkr_gallery_images"} =>
        /\ sessions.opened <= 1
        /\ sessions.peak <= 1
        /\ pc \in {"done", "raised"} => (sessions.opened = 1 /\ sessions.open = 0)

-----------------------------------------------------------------------------
(* Claims about the caps of scrape_hqporner *)

Returned == pc \in {"done", "raised"}

\* C25: scrape_hqporner fetches at most max_pages result pages in a run,
\* whatever the site answers (a next-page link back to a visited page
\* included), and every run ends.
C25_PageCapAndTermination ==
    /\ [](adapter = "scrape_hqporner" => Len(requests) <= max_pages)
    /\ <>Returned

\* the page cap ended a crawl that still had a page queued
C25_Witness ==
    /\ adapter = "scrape_hqporner" /\ pc = "done"
    /\ max_pages = DefaultMaxPages
    /\ Len(requests) = max_pages
    /\ queue # <<>>

C26_Step ==
    (adapter = "scrape_hqporner" /\ Len(urls) >= max_results) => requests' = requests

\* C26: scrape_hqporner never holds more than max_results videos, in any
\* state of the crawl, and fetches no page once it holds max_results.
C26_ResultCap ==
    /\ [](adapter = "scrape_hqporner" =>
             (Len(urls) <= max_results /\ Len(titles) = Len(urls)))
    /\ [][C26_Step]_vars

\* max_results = 1 and a first page with two different matching videos and a
\* next-page link: one video is returned and the queued page is never fetched
C26_Witness ==
    /\ adapter = "scrape_hqporner" /\ pc = "done"
    /\ max_results = 1 /\ max_pages >= 2
    /\ Len(responses) = 1 /\ responses[1].kind = "ok"
    /\ Len(responses[1].body.anchors) = 2
    /\ \A k \in 1..2 : /\ startswith(responses[1].body.anchors[k].href, "/hdporn/")
                       /\ responses[1].body.anchors[k].title = T_exact
    /\ responses[1].body.anchors[1].href # responses[1].body.anchors[2].href
    /\ urls = <<"https://hqporner.com" \o responses[1].body.anchors[1].href>>
    /\ queue # <<>>

-----------------------------------------------------------------------------
\* the pair (url, title) is in the answer of fetch_fullporner
Answered(v) ==
    \E j \in 1..Len(output.urls) : output.urls[j] = v.url /\ output.titles[j] = v.title

\* C27 (as claimed): fetch_fullporner returns every relevant video found on
\* any of the pages 1..last_page, last_page being the largest page number of
\* page 1's pagination links.
C27_AllPagesReturned ==
    (adapter = "fetch_fullporner" /\ pc = "done" /\ tasks # <<>>) =>
        /\ \A k \in 1..Len(held) : Answered(held[k])
        /\ \A i \in 1..Len(tasks) : \A k \in 1..Len(tasks[i].val) : Answered(tasks[i].val[k])

-----------------------------------------------------------------------------
(* Claims about the registration *)

Registered(i) == calls[i].op = "register" /\ calls[i].status = 201

\* call j, before call i, generated the code call i presents
GeneratedBy(j, i) ==
    /\ calls[j].op = "generate_invite_code"
    /\ calls[j].args.invite_code = calls[i].args.invite_code

\* call j, before call i, consumed the code call i presents: it registered
\* with it, or got as far as the username test with it
ConsumedBy(j, i) ==
    /\ calls[j].op = "register"
    /\ calls[j].args.invite_code = calls[i].args.invite_code
    /\ calls[j].detail \in {"Registered", "Username already registered"}

-----------------------------------------------------------------------------
\* a search page that answered 200 and gave no album link
NoAlbumLink(resp) ==
    /\ resp.kind = "ok" /\ resp.status = 200
    /\ \A n \in 1..Len(resp.body.hrefs) :
          ~startswith(resp.body.hrefs[n], "https://www.erome.com/a/")

\* C29 (as claimed): fetch_all_album_pages fetches no further page once a
\* page that answered 200 has given no album link.
C29_StopAtFirstEmptyPage ==
    adapter = "fetch_all_album_pages" =>
        \A k \in 1..Len(responses) : NoAlbumLink(responses[k]) => k = Len(responses)

-----------------------------------------------------------------------------
\* the numeric values of the 'from' fields of the data-parameters, in
\* document order
FromOffsets(ps) ==
    LET fields == SelectSeq(parts_of(ps),
                            LAMBDA f : /\ before_first(f, ":") = "from" /\ contains(":", f)
                                       /\ isdigit(after_first(f, ":")))
    IN  [i \in 1..Len(fields) |-> after_first(fields[i], ":")]

NoRelevantItem(a, resp) ==
    resp.kind = "ok" /\ accepted_offsets(a, resp.body.anchors) = <<>>

\* C30 (as claimed): fetch_porntn and fetch_xxbrits fetch continuation pages
\* only for the numeric 'from' offsets of the first page's data-parameters,
\* one page per offset in document order, and stop at the first continuation
\* page without a relevant item; a numeric value of another parameter causes
\* no fetch.
C30_OnlyFromOffsets ==
    (adapter \in OffsetAdapters /\ Len(responses) >= 1 /\ responses[1].kind = "ok") =>
        LET offs == FromOffsets(responses[1].body.params)
        IN  /\ Len(requests) <= 1 + Len(offs)
            /\ \A k \in 2..Len(requests) :
                  /\ k - 1 <= Len(offs)
                  /\ requests[k] = page_url_offsets(adapter, offs[k - 1])
            /\ \A k \in 2..Len(responses) :
                  NoRelevantItem(adapter, responses[k]) => k = Len(responses)


-----------------------------------------------------------------------------
(* Claims about the crawls that keep a seen set *)

\* the URLs a seen-set crawl takes from a page it received
SeenItems(a, resp) ==
    IF resp.kind # "ok" THEN {}
    ELSE IF a = "fetch_fanslyleaked"
    THEN LET as   == resp.body.anchors
             site == "https://ww1.fanslyleaked.com"
             full(h) == IF startswith(h, "/") THEN site \o h ELSE h
         IN  {full(as[k].href) : k \in {n \in 1..Len(as) :
                 /\ startswith(full(as[n].href), site \o "/")
                 /\ ~contains("/page/", full(as[n].href))
                 /\ ~contains("?s=", full(as[n].href))
                 /\ ~contains("#", full(as[n].href))}}
    ELSE PageItems(a, resp)

\* the items of the pages fetched before page i
SeenBefore(i) == UNION {SeenItems(adapter, responses[j]) : j \in 1..(i - 1)}

\* C31: in fetch_thotslife, extract_jpg5_album_media_urls, fetch_thothub,
\* fetch_fanslyleaked and scrape_hqporner every fetched page but the last one
\* fetched gave at least one URL no earlier page had given, so the pages
\* fetched number at most the distinct URLs plus one, and the crawl of a
\* finite site whose pages link to one another in a cycle ends.
C31_SeenSetTerminates ==
    /\ [](adapter \in SeenAdapters =>
            /\ \A i \in 1..(Len(responses) - 1) :
                 SeenItems(adapter, responses[i]) \ SeenBefore(i) # {}
            /\ Len(requests) <= Cardinality(SeenBefore(Len(responses) + 1)) + 1)
    /\ <>Returned

\* a crawl came back to a page it had fetched, found nothing new there and
\* ended although the page linked on
C31_Witness ==
    /\ adapter \in SeenAdapters /\ pc = "done"
    /\ Len(requests) >= 3
    /\ \E i \in 1..(Len(requests) - 1) : requests[i] = requests[Len(requests)]
    /\ responses[Len(responses)].body.next # ""
    /\ SeenItems(adapter, responses[Len(responses)]) # {}
    /\ Len(requests) = Cardinality(SeenBefore(Len(responses) + 1)) + 1

-----------------------------------------------------------------------------
(* Claims about the two lists a search adapter returns *)

\* the adapters of the two specifications that return (urls, titles)
PairAdapters ==
    (PageAdapters \ {"extract_jpg5_album_media_urls"})
    \cup {"fetch_fullporner", "fetch_notfans"}

\* the two lists as the run holds them: the locals of the sequential pagers,
\* the returned value of the gathered ones
PairLists ==
    CASE adapter \in PageAdapters -> [urls |-> urls, titles |-> titles]
      [] adapter \in {"fetch_fullporner", "fetch_notfans"} /\ pc = "done" -> output
      [] OTHER -> [urls |-> <<>>, titles |-> <<>>]

EndsWith(s, suf) == Len(s) >= Len(suf) /\ SubSeq(s, Len(s) - Len(suf) + 1, Len(s)) = suf

\* the href of u and the title t are those of one element of the page
PairOn(resp, u, t) ==
    /\ resp.kind = "ok"
    /\ \E k \in 1..Len(resp.body.anchors) :
         /\ EndsWith(u, resp.body.anchors[k].href)
         /\ t \in {resp.body.anchors[k].title, strip(resp.body.anchors[k].title)}

\* some page the run received, in the first exchange or in a gathered task,
\* carries an element with the href of u and the title t
ExtractedTogether(u, t) ==
    \/ \E j \in 1..Len(responses) : PairOn(responses[j], u, t)
    \/ \E i \in 1..Len(tasks) : \E n \in 1..Len(tasks[i].got) : PairOn(tasks[i].got[n], u, t)

\* C32: the two lists of a search adapter are parallel in every state of a
\* run: they have the same length, and titles[i] is the title of the element
\* urls[i] was taken from.
C32_ListsParallel ==
    adapter \in PairAdapters =>
        /\ Len(PairLists.urls) = Len(PairLists.titles)
        /\ \A i \in 1..Len(PairLists.urls) :
              ExtractedTogether(PairLists.urls[i], PairLists.titles[i])

\* fetch_fullporner returned videos of several pages, and pairing the URL of
\* one with the title of another would give a pair no page shows
C32_Witness ==
    /\ adapter = "fetch_fullporner" /\ pc = "done"
    /\ tasks # <<>>
    /\ Len(output.urls) > Len(held)
    /\ \E i, j \in 1..Len(output.urls) :
          ~ExtractedTogether(output.urls[i], output.titles[j])

-----------------------------------------------------------------------------
(* Claims about the answer of fetch_bunkr_gallery_images *)

\* the gather of the detail tasks hands to the validation only image URLs
\* whose file page answered 200 and whose HEAD answered 200, and the
\* validation keeps the URLs it was handed
C33_Step ==
    adapter = "fetch_bunkr_gallery_images" =>
        /\ (pc = "gather" /\ pc' = "validate") =>
              \A k \in 1..Len(tasks') :
                 \E i \in 1..Len(tasks) :
                    /\ ProbedAlive(tasks[i])
                    /\ tasks[i].got[1].body.img = tasks'[k].req
        /\ pc = "validate" =>
              /\ Len(tasks') = Len(tasks)
              /\ \A k \in 1..Len(tasks) : tasks'[k].req = tasks[k].req

\* C33: every URL fetch_bunkr_gallery_images returns passed the three checks
\* in that run: the file page that showed it answered 200, the HEAD request on
\* it answered 200 and the ranged GET on it answered 206; the answer holds no
\* URL twice and no None.
C33_ReturnedUrlsAlive ==
    /\ [](adapter = "fetch_bunkr_gallery_images" /\ pc = "done" =>
            /\ \A k \in 1..Len(output) :
                  /\ output[k] # None
                  /\ \E i \in 1..Len(tasks) : tasks[i].req = output[k] /\ Got206(tasks[i])
            /\ \A k, n \in 1..Len(output) : output[k] = output[n] => k = n)
    /\ [][C33_Step]_vars

\* one image passed both probes through two file pages and answered 206 to
\* both validations, another was dropped by the validation: the answer holds
\* the first once
C33_Witness ==
    /\ adapter = "fetch_bunkr_gallery_images" /\ pc = "done"
    /\ Len(tasks) = 3
    /\ \E i, j \in 1..3 : /\ i # j
                          /\ tasks[i].req = tasks[j].req
                          /\ Got206(tasks[i]) /\ Got206(tasks[j])
                          /\ output = <<tasks[i].req>>

-----------------------------------------------------------------------------
(* Claims about the answer of fetch_fullporner *)

\* the relevant videos of page p as the run received it
VidsOf(p) ==
    IF p = 1
    THEN videos_fullporner(responses[1].body.anchors)
    ELSE IF p - 1 <= Len(tasks) /\ tasks[p - 1].got # <<>>
    THEN videos_fullporner(tasks[p - 1].got[1].body.anchors)
    ELSE <<>>

\* the largest number of page 1's pagination links, 1 when it shows none
LastPage ==
    IF responses[1].body.nums = {} THEN 1 ELSE Max(responses[1].body.nums)

\* the first page of 1..LastPage without a relevant video, LastPage + 1 when
\* every page has one
FirstEmptyPage ==
    IF \E p \in 1..LastPage : VidsOf(p) = <<>>
    THEN CHOOSE p \in 1..LastPage :
            VidsOf(p) = <<>> /\ \A q \in 1..(p - 1) : VidsOf(q) # <<>>
    ELSE LastPage + 1

RECURSIVE PagesUpTo(_)
PagesUpTo(n) == IF n = 0 THEN <<>> ELSE PagesUpTo(n - 1) \o VidsOf(n)

-----------------------------------------------------------------------------
(* Claims about what a rejected registration leaves behind *)

\* a register call that ends in a 400 leaves both stores as they were
C35_Step ==
    (/\ Len(calls') = Len(calls) + 1
     /\ calls'[Len(calls')].op = "register"
     /\ calls'[Len(calls')].status = 400)
        => (invites' = invites /\ users' = users)

=========================================================================
